---- MODULE Spec2Model ----
(***************************************************************************)
(* experience-engine: the episodic log (core.py), the reflection stage     *)
(* (reflection.py) and the synthesis stage (synthesis.py), with the four   *)
(* documents they keep under one data directory.                           *)
(*                                                                         *)
(* Files are sequences of lexemes.  A lexeme is a record [t, s, n]:        *)
(*   t = "p"     punctuation, s = <<"[">> and so on                        *)
(*   t = "str"   a JSON string literal, s = its characters between the     *)
(*               quotes, as written in the file (escaped)                  *)
(*   t = "int"   an integer literal n                                      *)
(*   t = "frac"  a decimal literal, n in hundredths (0.85 is 85)           *)
(*   t = "kw"    the literal null                                          *)
(*   t = "nl"    a line break                                              *)
(*   t = "word"  text that is no JSON (prose of the model)                 *)
(*   t = "fence" a markdown code fence, s = <<"json">> when tagged         *)
(*   t = "tick"  a single backtick                                         *)
(* Characters of a text are strings: a letter run such as "karma" counts   *)
(* as one character, "SP" is a blank, "NL" a newline, "VT" a vertical tab, *)
(* "QT" a double quote and "BS" a backslash.                               *)
(***************************************************************************)
EXTENDS Integers, Sequences, FiniteSets, TLC

\* ---------------------------------------------------------------- lexemes

Lx(t, s, n) == [t |-> t, s |-> s, n |-> n]
P(c)        == Lx("p", <<c>>, 0)
STR(s)      == Lx("str", s, 0)
INT(n)      == Lx("int", <<>>, n)
FRAC(n)     == Lx("frac", <<>>, n)
KWNULL      == Lx("kw", <<"null">>, 0)
NLX         == Lx("nl", <<>>, 0)
WORD(w)     == Lx("word", <<w>>, 0)
FENCE       == Lx("fence", <<>>, 0)
FENCEJSON   == Lx("fence", <<"json">>, 0)
TICK        == Lx("tick", <<>>, 0)
BROKEN      == Lx("broken", <<>>, 0)

\* ------------------------------------------------------ values of Python

\* A value is a record [k, n, s, items]; a dict keeps its pairs in
\* insertion order, each pair a record of kind "pair".
JNull        == [k |-> "null", n |-> 0, s |-> <<>>, items |-> <<>>]
JInt(n)      == [k |-> "int",  n |-> n, s |-> <<>>, items |-> <<>>]
JFrac(n)     == [k |-> "frac", n |-> n, s |-> <<>>, items |-> <<>>]
JStr(s)      == [k |-> "str",  n |-> 0, s |-> s,    items |-> <<>>]
JList(items) == [k |-> "list", n |-> 0, s |-> <<>>, items |-> items]
JObj(pairs)  == [k |-> "obj",  n |-> 0, s |-> <<>>, items |-> pairs]
JPair(key, v) == [k |-> "pair", n |-> 0, s |-> <<key>>, items |-> <<v>>]

IsList(v) == v.k = "list"
IsDict(v) == v.k = "obj"
IsNumber(v) == v.k \in {"int", "frac"}

\* a number in hundredths
Hundredths(v) == IF v.k = "int" THEN 100 * v.n ELSE v.n

\* Python truth value: None, 0, 0.0, "", [] and {} are false
Truthy(v) ==
    CASE v.k = "null" -> FALSE
      [] v.k \in {"int", "frac"} -> v.n # 0
      [] v.k = "str" -> v.s # <<>>
      [] OTHER -> v.items # <<>>

\* dict.get(key, default)
HasKey(d, key) == \E i \in 1..Len(d.items) : d.items[i].s = <<key>>
Get(d, key, default) ==
    IF HasKey(d, key)
    THEN d.items[CHOOSE i \in 1..Len(d.items) : d.items[i].s = <<key>>].items[1]
    ELSE default

\* d[key] = v while a dict is built: a repeated key keeps its place
SetKey(pairs, key, v) ==
    IF \E i \in 1..Len(pairs) : pairs[i].s = <<key>>
    THEN [i \in 1..Len(pairs) |->
             IF pairs[i].s = <<key>> THEN JPair(key, v) ELSE pairs[i]]
    ELSE Append(pairs, JPair(key, v))

\* ------------------------------------------------- json.dumps, json.loads

\* a writer that escapes nothing
EscapeChar_raw(c) == <<c>>

\* the escape json.dumps writes for one character of a string
EscapeChar(c) ==
    CASE c = "NL" -> <<"BS", "n">>
      [] c = "VT" -> <<"BS", "u000b">>
      [] c = "QT" -> <<"BS", "QT">>
      [] c = "BS" -> <<"BS", "BS">>
      [] OTHER    -> <<c>>

RECURSIVE Escape(_)
Escape(s) == IF s = <<>> THEN <<>> ELSE EscapeChar(Head(s)) \o Escape(Tail(s))

\* the decoder's reading of the characters of a string literal:
\* [ok, out]; a raw control character, a raw quote or an unknown escape
\* is a JSONDecodeError
RECURSIVE Unescape(_)
Unescape(s) ==
    IF s = <<>> THEN [ok |-> TRUE, out |-> <<>>]
    ELSE IF Head(s) \in {"NL", "VT", "QT"} THEN [ok |-> FALSE, out |-> <<>>]
    ELSE IF Head(s) = "BS"
    THEN IF Len(s) < 2 \/ s[2] \notin {"n", "u000b", "QT", "BS"}
         THEN [ok |-> FALSE, out |-> <<>>]
         ELSE LET c == CASE s[2] = "n" -> "NL"
                         [] s[2] = "u000b" -> "VT"
                         [] OTHER -> s[2]
                  r == Unescape(SubSeq(s, 3, Len(s)))
              IN  [ok |-> r.ok, out |-> <<c>> \o r.out]
    ELSE LET r == Unescape(Tail(s))
         IN  [ok |-> r.ok, out |-> <<Head(s)>> \o r.out]

\* json.dumps(v): the lexemes of the text (white space is not kept)
RECURSIVE Dumps(_), DumpsItems(_), DumpsPairs(_)
Dumps(v) ==
    CASE v.k = "null" -> <<KWNULL>>
      [] v.k = "int"  -> <<INT(v.n)>>
      [] v.k = "frac" -> <<FRAC(v.n)>>
      [] v.k = "str"  -> <<STR(Escape(v.s))>>
      [] v.k = "list" -> <<P("[")>> \o DumpsItems(v.items) \o <<P("]")>>
      [] OTHER        -> <<P("{")>> \o DumpsPairs(v.items) \o <<P("}")>>
DumpsItems(items) ==
    IF items = <<>> THEN <<>>
    ELSE IF Len(items) = 1 THEN Dumps(items[1])
    ELSE Dumps(items[1]) \o <<P(",")>> \o DumpsItems(Tail(items))
DumpsPairs(pairs) ==
    IF pairs = <<>> THEN <<>>
    ELSE LET one == <<STR(Escape(pairs[1].s))>> \o <<P(":")>>
                        \o Dumps(pairs[1].items[1])
         IN  IF Len(pairs) = 1 THEN one
             ELSE one \o <<P(",")>> \o DumpsPairs(Tail(pairs))

\* the decoder: ParseValue reads one value of text at position i and
\* answers [ok, val, nxt]
ParseFail == [ok |-> FALSE, val |-> JNull, nxt |-> 0]
ParseOk(v, nxt) == [ok |-> TRUE, val |-> v, nxt |-> nxt]

RECURSIVE ParseValue(_, _), ParseElements(_, _, _), ParseMembers(_, _, _)
ParseValue(text, i) ==
    IF i > Len(text) THEN ParseFail
    ELSE LET x == text[i] IN
         CASE x.t = "str" ->
                  LET u == Unescape(x.s)
                  IN  IF u.ok THEN ParseOk(JStr(u.out), i + 1) ELSE ParseFail
           [] x.t = "int"  -> ParseOk(JInt(x.n), i + 1)
           [] x.t = "frac" -> ParseOk(JFrac(x.n), i + 1)
           [] x.t = "kw"   -> ParseOk(JNull, i + 1)
           [] x = P("[") ->
                  IF i + 1 <= Len(text) /\ text[i + 1] = P("]")
                  THEN ParseOk(JList(<<>>), i + 2)
                  ELSE ParseElements(text, i + 1, <<>>)
           [] x = P("{") ->
                  IF i + 1 <= Len(text) /\ text[i + 1] = P("}")
                  THEN ParseOk(JObj(<<>>), i + 2)
                  ELSE ParseMembers(text, i + 1, <<>>)
           [] OTHER -> ParseFail
ParseElements(text, i, acc) ==
    LET r == ParseValue(text, i) IN
    IF ~r.ok \/ r.nxt > Len(text) THEN ParseFail
    ELSE IF text[r.nxt] = P(",")
         THEN ParseElements(text, r.nxt + 1, Append(acc, r.val))
    ELSE IF text[r.nxt] = P("]")
         THEN ParseOk(JList(Append(acc, r.val)), r.nxt + 1)
    ELSE ParseFail
ParseMembers(text, i, acc) ==
    IF i + 1 > Len(text) \/ text[i].t # "str" \/ text[i + 1] # P(":")
    THEN ParseFail
    ELSE LET key == Unescape(text[i].s)
             r   == ParseValue(text, i + 2)
         IN  IF ~key.ok \/ ~r.ok \/ r.nxt > Len(text) THEN ParseFail
             ELSE IF text[r.nxt] = P(",")
                  THEN ParseMembers(text, r.nxt + 1,
                                    SetKey(acc, key.out[1], r.val))
             ELSE IF text[r.nxt] = P("}")
                  THEN ParseOk(JObj(SetKey(acc, key.out[1], r.val)),
                               r.nxt + 1)
             ELSE ParseFail

\* json.loads(text): [ok, val]; text after the value is "Extra data"
Loads(text) ==
    LET r == ParseValue(text, 1)
    IN  IF r.ok /\ r.nxt = Len(text) + 1
        THEN [ok |-> TRUE, val |-> r.val]
        ELSE [ok |-> FALSE, val |-> JNull]

\* ------------------------------------------------------------- annotator

WhiteSpace == {"SP", "NL", "VT"}
\* characters that are no word characters (\w) of a regular expression
NonWord == WhiteSpace \cup {"QT", "BS", ",", "/", "'", "-", "."}
IsWordChar(c) == c \notin NonWord

\* str.lower() on one character
Lower(c) ==
    CASE c = "Karma" -> "karma"
      [] c = "Maybe" -> "maybe"
      [] OTHER -> c
LowerText(text) == [i \in 1..Len(text) |-> Lower(text[i])]

\* \b between text[i] and text[i+1] (the ends of the text count as
\* non-word characters)
Boundary(text, i) ==
    LET left  == i >= 1 /\ i <= Len(text) /\ IsWordChar(text[i])
        right == i + 1 >= 1 /\ i + 1 <= Len(text) /\ IsWordChar(text[i + 1])
    IN  left # right

\* the phrase ph is found at position i of text, between two \b;
\* "ANY" in a phrase is the pattern .? matching one character that is
\* not a letter run
MatchAt(text, ph, i) ==
    /\ i + Len(ph) - 1 <= Len(text)
    /\ \A j \in 1..Len(ph) :
          IF ph[j] = "ANY" THEN text[i + j - 1] \in NonWord \ {"NL"}
          ELSE text[i + j - 1] = ph[j]
    /\ Boundary(text, i - 1)
    /\ Boundary(text, i + Len(ph) - 1)

Search(text, phrases) ==
    \E ph \in phrases : \E i \in 1..Len(text) : MatchAt(text, ph, i)

Words(ws) == {<<w>> : w \in ws}

\* _TAG_PATTERNS, in the order of the table
TagOrder == <<"infrastructure", "ai_ml", "python", "architecture",
              "debugging", "preference", "goal", "frustration",
              "spirituality", "correction", "investing", "learning">>

TagPattern(tag) ==
    CASE tag = "infrastructure" ->
             Words({"docker", "k8s", "kubernetes", "nginx", "server",
                    "deploy", "cloud", "aws", "gcp", "azure", "local"})
      [] tag = "ai_ml" ->
             Words({"llm", "model", "embedding", "rag", "vector", "finetun",
                    "inference", "ollama", "mistral", "gpt"})
                 \cup {<<"fine", "ANY", "tun">>}
      [] tag = "python" ->
             Words({"python", "pip", "venv", "fastapi", "flask", "django",
                    "pydantic"})
      [] tag = "architecture" ->
             Words({"architecture", "design", "pattern", "scalab",
                    "microservice", "monolith", "system"})
      [] tag = "debugging" ->
             Words({"error", "bug", "fix", "broken", "fail", "crash",
                    "exception", "traceback"})
      [] tag = "preference" ->
             Words({"prefer", "rather", "instead", "avoid", "hate", "love",
                    "like", "dislike", "want"})
      [] tag = "goal" ->
             Words({"goal", "building", "create", "launch", "ship"})
                 \cup {<<"want", "SP", "to">>, <<"trying", "SP", "to">>}
      [] tag = "frustration" ->
             Words({"frustrat", "annoy", "slow", "complic", "overengineer",
                    "wrong"})
                 \cup {<<"too", "SP", "much">>}
      [] tag = "spirituality" ->
             Words({"gita", "krishna", "karma", "jnana", "bhakti", "dharma",
                    "marga", "yoga", "vedic", "spiritual"})
      [] tag = "correction" ->
             Words({"wrong", "incorrect"})
                 \cup {<<"no", ",">>, <<"not", "SP", "right">>,
                       <<"that", "'", "s", "SP", "not">>,
                       <<"actually", ",">>}
      [] tag = "investing" ->
             Words({"invest", "stock", "market", "portfolio", "value",
                    "dividend", "equity", "asset"})
                 \cup {<<"p", "/", "e">>}
      [] OTHER ->
             Words({"learn", "study", "understand", "teach", "master",
                    "curriculum", "course", "practice"})

\* the tags of TagOrder[i..] whose pattern is found in t
RECURSIVE TagsFrom(_, _)
TagsFrom(t, i) ==
    IF i > Len(TagOrder) THEN <<>>
    ELSE (IF Search(t, TagPattern(TagOrder[i])) THEN <<TagOrder[i]>> ELSE <<>>)
             \o TagsFrom(t, i + 1)

_auto_tag(text) == TagsFrom(LowerText(text), 1)

Hedges == Words({"maybe", "perhaps", "might", "could", "unclear", "depends",
                 "uncertain", "possibly"}) \cup {<<"not", "SP", "sure">>}

\* len(re.findall(hedges, text)): no two matches overlap
CountHedges(text) ==
    Cardinality({i \in 1..Len(text) : \E ph \in Hedges : MatchAt(text, ph, i)})

\* len(answer.split()): the runs of characters that are no white space
WordCount(text) ==
    Cardinality({i \in 1..Len(text) :
                    /\ text[i] \notin WhiteSpace
                    /\ (i = 1 \/ text[i - 1] \in WhiteSpace)})

\* a maximum that forgets its first argument
Max_second(a, b) == b

Max(a, b) == IF a >= b THEN a ELSE b
Min(a, b) == IF a <= b THEN a ELSE b

\* a score that counts the hedges of the question too
_score_confidence_asking(question, answer) ==
    LET hedges    == CountHedges(LowerText(question \o <<"SP">> \o answer))
        length_ok == 50 < WordCount(answer) /\ WordCount(answer) < 600
    IN  Max(30, Min(95, 85 - hedges * 8 + (IF length_ok THEN 5 ELSE 0)))

\* in hundredths
_score_confidence(question, answer) ==
    LET hedges    == CountHedges(LowerText(answer))
        length_ok == 50 < WordCount(answer) /\ WordCount(answer) < 600
    IN  Max(30, Min(95, 85 - hedges * 8 + (IF length_ok THEN 5 ELSE 0)))

\* ------------------------------------------------------------------ state

VARIABLES
    log_file,       \* config.log_file:     [exists, text]
    belief_file,    \* config.belief_file
    pattern_file,   \* config.pattern_file
    tension_file,   \* config.tension_file
    cfg,            \* the EngineConfig every call is given
    pc,             \* "idle", or the stage that waits for the model
    loc,            \* the locals of the stage that waits for the model
    ret,            \* the last call made and what it gave its caller
    appended,       \* the entries log_interaction has returned, in order
    crashed         \* a process has died between the writes of a save

vars == <<log_file, belief_file, pattern_file, tension_file, cfg, pc, loc,
          ret, appended, crashed>>
files == <<log_file, belief_file, pattern_file, tension_file>>

NoFile     == [exists |-> FALSE, text |-> <<>>]
File(text) == [exists |-> TRUE, text |-> text]

\* what the model adapter gave the caller of _call: a text, or an error
NoReply     == [ok |-> FALSE, text |-> <<>>]
Reply(text) == [ok |-> TRUE, text |-> text]

\* the last call made: op and its argument, how it ended ("ok", "raised"
\* for an exception of the code, "llm_error" for the error of the model
\* adapter, "crashed", or "pending" while it waits for the model), the
\* value returned, the model calls made and the reply to the last of them
Ret(op, arg, outcome, val, calls, reply) ==
    [op |-> op, arg |-> arg, outcome |-> outcome, val |-> val,
     calls |-> calls, reply |-> reply]

NoLocals == [entries |-> <<>>, existing |-> <<>>, count |-> 0,
             total_events |-> 0, situation |-> JNull]

\* ---------------------------------------------------------- episodic log

\* the orders in which list(set(...)) can give the elements of S
Orders(S) ==
    {o \in [1..Cardinality(S) -> S] : \A i, j \in 1..Cardinality(S) :
                                          o[i] = o[j] => i = j}
Range(f) == {f[i] : i \in DOMAIN f}

StrList(ss) == JList([i \in 1..Len(ss) |-> JStr(<<ss[i]>>)])

\* the entry dict of log_interaction
Entry(id, question, answer, tags) ==
    JObj(<<JPair("id", JStr(<<id>>)),
           JPair("timestamp", JStr(<<"now">>)),
           JPair("question", JStr(question)),
           JPair("answer", JStr(answer)),
           JPair("tags", StrList(tags)),
           JPair("confidence", JFrac(_score_confidence(question, answer)))>>)

\* a writer that opens the file with "w"
AppendText_truncating(f, text) == File(text)

\* f.write(text) on a file opened with "a"
AppendText(f, text) == File(f.text \o text)

\* a string literal holding a raw line break (one of brk) is cut in two
RECURSIVE CutAtBreaks(_, _)
CutAtBreaks(text, brk) ==
    IF text = <<>> THEN <<>>
    ELSE (IF Head(text).t = "str" /\ Range(Head(text).s) \cap brk # {}
          THEN <<BROKEN, NLX, BROKEN>>
          ELSE <<Head(text)>>) \o CutAtBreaks(Tail(text), brk)

\* str.strip() of a file's text
RECURSIVE LStrip(_), RStrip(_)
LStrip(text) ==
    IF text # <<>> /\ Head(text) = NLX THEN LStrip(Tail(text)) ELSE text
RStrip(text) ==
    IF text # <<>> /\ text[Len(text)] = NLX
    THEN RStrip(SubSeq(text, 1, Len(text) - 1)) ELSE text
Strip(text) == RStrip(LStrip(text))

\* the lines of a text, without their line ends
RECURSIVE Lines(_)
Lines(text) ==
    IF text = <<>> THEN <<>>
    ELSE IF \E i \in 1..Len(text) : text[i] = NLX
    THEN LET k == CHOOSE i \in 1..Len(text) :
                      text[i] = NLX /\ \A j \in 1..(i - 1) : text[j] # NLX
         IN  <<SubSeq(text, 1, k - 1)>> \o Lines(SubSeq(text, k + 1, Len(text)))
    ELSE <<text>>

\* str.splitlines() cuts at "\n" and at "\x0b"; iterating an open file
\* cuts at "\n" only
SplitLines(text) == Lines(CutAtBreaks(text, {"NL", "VT"}))
FileLines(text)  == Lines(CutAtBreaks(text, {"NL"}))

NonBlank(lines) == SelectSeq(lines, LAMBDA l : l # <<>>)

\* entries[-n:] if n else entries
LastN(entries, n) ==
    IF n.k = "null" \/ n.n = 0 THEN entries
    ELSE IF n.n > 0
         THEN SubSeq(entries, Max(Len(entries) - n.n, 0) + 1, Len(entries))
         ELSE SubSeq(entries, (0 - n.n) + 1, Len(entries))

\* load_log(n, config): [ok, val]; ok is FALSE when json.loads raises
load_log(n, f) ==
    IF ~f.exists THEN [ok |-> TRUE, val |-> <<>>]
    ELSE LET lines  == NonBlank(SplitLines(Strip(f.text)))
             parsed == [i \in 1..Len(lines) |-> Loads(lines[i])]
         IN  IF \E i \in 1..Len(lines) : ~parsed[i].ok
             THEN [ok |-> FALSE, val |-> <<>>]
             ELSE [ok |-> TRUE,
                   val |-> LastN([i \in 1..Len(lines) |-> parsed[i].val], n)]

\* a count of the different lines of the log
log_count_distinct(f) ==
    IF ~f.exists THEN 0 ELSE Cardinality(Range(NonBlank(FileLines(f.text))))

\* log_count(config)
log_count(f) ==
    IF ~f.exists THEN 0 ELSE Len(NonBlank(FileLines(f.text)))

\* ------------------------------------------------------- model responses

\* re.sub(r"```(?:json)?", "", raw).strip().rstrip("`").strip()
RECURSIVE RStripTicks(_)
RStripTicks(text) ==
    IF text # <<>> /\ text[Len(text)] = TICK
    THEN RStripTicks(SubSeq(text, 1, Len(text) - 1)) ELSE text
StripFences(raw) ==
    Strip(RStripTicks(Strip(SelectSeq(raw, LAMBDA x : x.t # "fence"))))

\* re.search(open .* close, raw, re.DOTALL): the span from the first
\* open to the last close after it; [found, text]
RegexSpan(raw, open, close) ==
    LET opens == {i \in 1..Len(raw) : raw[i] = P(open)} IN
    IF opens = {} THEN [found |-> FALSE, text |-> <<>>]
    ELSE LET first  == CHOOSE i \in opens : \A j \in opens : i <= j
             closes == {i \in (first + 1)..Len(raw) : raw[i] = P(close)}
         IN  IF closes = {} THEN [found |-> FALSE, text |-> <<>>]
             ELSE LET last == CHOOSE i \in closes : \A j \in closes : j <= i
                  IN  [found |-> TRUE, text |-> SubSeq(raw, first, last)]

\* --------------------------------------------------------------- reflection

\* the dict of a document
DocOf(f) == Loads(f.text).val

\* a loader that gives a starter belief while the store is absent
load_beliefs_seeded(f) ==
    IF ~f.exists
    THEN JList(<<JObj(<<JPair("belief", JStr(<<"new-user">>)),
                        JPair("confidence", JFrac(100))>>)>>)
    ELSE Get(DocOf(f), "beliefs", JList(<<>>))

\* load_beliefs(config)
load_beliefs(f) ==
    IF ~f.exists THEN JList(<<>>) ELSE Get(DocOf(f), "beliefs", JList(<<>>))

\* _save_beliefs(beliefs, reflection_count, config): the file written
_save_beliefs(beliefs, reflection_count) ==
    File(Dumps(JObj(<<JPair("last_updated", JStr(<<"now">>)),
                      JPair("reflection_count", JInt(reflection_count)),
                      JPair("beliefs", beliefs)>>)))

\* _parse_beliefs(raw)
_parse_beliefs(raw) ==
    LET text == StripFences(raw)
        data == Loads(text)
    IN  IF data.ok
        THEN IF IsList(data.val) THEN data.val ELSE JList(<<>>)
        ELSE LET match == RegexSpan(text, "[", "]")
                 inner == Loads(match.text)
             IN  IF match.found /\ inner.ok THEN inner.val ELSE JList(<<>>)

\* a filter that keeps every belief
Keep_all(b, min_conf) == TRUE

\* b.get("confidence", 0) >= min_belief_confidence raises for a b that
\* is no dict (AttributeError) and for a confidence that is no number
\* (TypeError)
KeepRaises(b) ==
    \/ ~IsDict(b)
    \/ ~IsNumber(Get(b, "confidence", JInt(0)))
Keep(b, min_conf) == Hundredths(Get(b, "confidence", JInt(0))) >= min_conf

\* [b for b in beliefs if b.get("confidence", 0) >= min]: [ok, val]
FilterBeliefs(beliefs, min_conf) ==
    IF \E i \in 1..Len(beliefs.items) : KeepRaises(beliefs.items[i])
    THEN [ok |-> FALSE, val |-> JList(<<>>)]
    ELSE [ok |-> TRUE,
          val |-> JList(SelectSeq(beliefs.items,
                                  LAMBDA b : Keep(b, min_conf)))]

\* a run that never reads the counter
StoredReflectionCount_fresh(f) == 0

\* the reflection_count run_reflection reads from disk
StoredReflectionCount(f) ==
    IF f.exists THEN Get(DocOf(f), "reflection_count", JInt(0)).n ELSE 0

\* a run that goes on without entries
NoEntries_never(entries) == FALSE

\* if not entries
NoEntries(entries) == entries = <<>>

\* reflection_count + 1
NextReflectionCount(c) == c + 1

\* a run that adds its beliefs to the stored ones
BeliefsToSave_merged(existing, filtered) ==
    JList(existing \o filtered.items)

\* the belief set _save_beliefs is given: the filtered list alone, the
\* existing set went into the prompt only
BeliefsToSave(existing, filtered) == filtered

\* ---------------------------------------------------------------- synthesis

DefaultPatterns ==
    JObj(<<JPair("last_updated", JNull),
           JPair("synthesis_count", JInt(0)),
           JPair("abstraction_ladder",
                 JObj(<<JPair("observations", JList(<<>>)),
                        JPair("themes", JList(<<>>)),
                        JPair("patterns", JList(<<>>)),
                        JPair("biases", JList(<<>>))>>)),
           JPair("cognitive_patterns", JList(<<>>)),
           JPair("decision_archetype",
                 JObj(<<JPair("dominant", JNull),
                        JPair("distribution", JObj(<<>>)),
                        JPair("history", JList(<<>>))>>)),
           JPair("experience_compression",
                 JObj(<<JPair("total_events", JInt(0)),
                        JPair("total_patterns", JInt(0)),
                        JPair("compression_ratio", JNull)>>))>>)

\* load_patterns(config)
load_patterns(f) == IF ~f.exists THEN DefaultPatterns ELSE DocOf(f)

\* load_tensions(config)
load_tensions(f) ==
    IF ~f.exists THEN JList(<<>>) ELSE Get(DocOf(f), "tensions", JList(<<>>))

\* str(n) for n >= 0, one character per digit
DigitChar(d) ==
    CASE d = 0 -> "0" [] d = 1 -> "1" [] d = 2 -> "2" [] d = 3 -> "3"
      [] d = 4 -> "4" [] d = 5 -> "5" [] d = 6 -> "6" [] d = 7 -> "7"
      [] d = 8 -> "8" [] OTHER -> "9"
RECURSIVE NumChars(_)
NumChars(n) ==
    IF n < 10 THEN <<DigitChar(n)>>
    ELSE NumChars(n \div 10) \o <<DigitChar(n % 10)>>

\* len(x) raises TypeError for None and for a number
HasLen(v) == v.k \in {"str", "list", "obj"}
PyLen(v)  == IF v.k = "str" THEN Len(v.s) ELSE Len(v.items)

\* _save_synthesis raises before it writes: result.get on a value that is
\* no dict, len(patterns) on a value without length
SaveRaises(result) ==
    \/ ~IsDict(result)
    \/ ~HasLen(Get(result, "cognitive_patterns", JList(<<>>)))

\* a save whose ratio is the two counts whatever the number of patterns
PatternData_ratio(result, synthesis_count, total_events) ==
    LET patterns  == Get(result, "cognitive_patterns", JList(<<>>))
        archetype == Get(result, "decision_archetype", JObj(<<>>))
        ladder    == Get(result, "abstraction_ladder", JObj(<<>>))
    IN  JObj(<<JPair("last_updated", JStr(<<"now">>)),
               JPair("synthesis_count", JInt(synthesis_count)),
               JPair("abstraction_ladder", ladder),
               JPair("cognitive_patterns", patterns),
               JPair("decision_archetype", archetype),
               JPair("experience_compression",
                     JObj(<<JPair("total_events", JInt(total_events)),
                            JPair("total_patterns", JInt(PyLen(patterns))),
                            JPair("compression_ratio",
                                  JStr(NumChars(total_events) \o <<":">>
                                          \o NumChars(PyLen(patterns))))>>))>>)

\* _save_synthesis: pattern_data, the first file written
PatternData(result, synthesis_count, total_events) ==
    LET patterns  == Get(result, "cognitive_patterns", JList(<<>>))
        archetype == Get(result, "decision_archetype", JObj(<<>>))
        ladder    == Get(result, "abstraction_ladder", JObj(<<>>))
    IN  JObj(<<JPair("last_updated", JStr(<<"now">>)),
               JPair("synthesis_count", JInt(synthesis_count)),
               JPair("abstraction_ladder", ladder),
               JPair("cognitive_patterns", patterns),
               JPair("decision_archetype", archetype),
               JPair("experience_compression",
                     JObj(<<JPair("total_events", JInt(total_events)),
                            JPair("total_patterns", JInt(PyLen(patterns))),
                            JPair("compression_ratio",
                                  IF Truthy(patterns)
                                  THEN JStr(NumChars(total_events) \o <<":">>
                                              \o NumChars(PyLen(patterns)))
                                  ELSE JStr(<<"N/A">>))>>))>>)

\* a save that writes the Tension document without the tensions
TensionData_empty(result) ==
    JObj(<<JPair("last_updated", JStr(<<"now">>)),
           JPair("tensions", JList(<<>>)),
           JPair("resolved", JList(<<>>))>>)

\* _save_synthesis: tension_data, the second file written
TensionData(result) ==
    JObj(<<JPair("last_updated", JStr(<<"now">>)),
           JPair("tensions", Get(result, "tensions", JList(<<>>))),
           JPair("resolved", JList(<<>>))>>)

\* _parse_result(raw)
_parse_result(raw) ==
    LET text == StripFences(raw)
        data == Loads(text)
    IN  IF data.ok THEN data.val
        ELSE LET match == RegexSpan(text, "{", "}")
                 inner == Loads(match.text)
             IN  IF match.found /\ inner.ok THEN inner.val ELSE JObj(<<>>)

\* a run that goes on without beliefs
NoBeliefs_never(beliefs) == FALSE

\* if not beliefs
NoBeliefs(beliefs) == ~Truthy(beliefs)

\* a run that saves whatever the parse gave
EmptyResult_never(result) == FALSE

\* if not result
EmptyResult(result) == ~Truthy(result)

\* a counter that is written back as read
NextSynthesisCount_same(c) == c

\* synth_count + 1
NextSynthesisCount(c) == c + 1

\* after the save run_synthesis takes len(result.get("tensions", []))
CountRaises(result) == ~HasLen(Get(result, "tensions", JList(<<>>)))

\* -------------------------------------------------------- context blocks

\* "\n".join(lines)
RECURSIVE Join(_)
Join(lines) ==
    IF lines = <<>> THEN <<>>
    ELSE IF Len(lines) = 1 THEN lines[1]
    ELSE lines[1] \o <<"NL">> \o Join(Tail(lines))

\* x.get("confidence", 0), in hundredths
ConfidenceOf(x) == Hundredths(Get(x, "confidence", JInt(0)))

\* key=lambda x: -x.get("confidence", 0)
SortKey(x) == 0 - ConfidenceOf(x)

\* the key raises AttributeError for an x that is no dict and TypeError
\* for a confidence that is no number
KeyRaises(x) == ~IsDict(x) \/ ~IsNumber(Get(x, "confidence", JInt(0)))

\* sorted(items, key=...): ascending in the key, and stable
RECURSIVE InsertByKey(_, _)
InsertByKey(sorted, x) ==
    IF sorted = <<>> THEN <<x>>
    ELSE IF SortKey(Head(sorted)) <= SortKey(x)
         THEN <<Head(sorted)>> \o InsertByKey(Tail(sorted), x)
         ELSE <<x>> \o sorted
RECURSIVE Sorted(_)
Sorted(items) ==
    IF items = <<>> THEN <<>>
    ELSE InsertByKey(Sorted(SubSeq(items, 1, Len(items) - 1)),
                     items[Len(items)])

\* str(v) inside an f-string, for a string and for an integer
Text(v) == IF v.k = "str" THEN v.s ELSE NumChars(v.n)

\* f"{c:.0%}" for c in hundredths
Percent(c) == NumChars(c) \o <<"%">>

BeliefHeading == <<"## What I know about you (domain beliefs)", "NL">>

\* f"- {b['belief']} ({b.get('confidence', 0):.0%})"
BeliefBullet(b) ==
    <<"-", "SP">> \o Text(Get(b, "belief", JNull)) \o <<"SP", "(">>
        \o Percent(ConfidenceOf(b)) \o <<")">>

\* format_belief_block(beliefs, config): [ok, val]; ok is FALSE when the
\* sort key raises or a belief has no "belief" (KeyError)
format_belief_block(beliefs, f) ==
    LET bs == IF beliefs = JNull THEN load_beliefs(f) ELSE beliefs IN
    IF ~Truthy(bs) THEN [ok |-> TRUE, val |-> <<>>]
    ELSE IF \E i \in 1..Len(bs.items) :
                KeyRaises(bs.items[i]) \/ ~HasKey(bs.items[i], "belief")
    THEN [ok |-> FALSE, val |-> <<>>]
    ELSE LET sorted == Sorted(bs.items) IN
         [ok |-> TRUE,
          val |-> Join(<<BeliefHeading>>
                         \o [i \in 1..Len(sorted) |-> BeliefBullet(sorted[i])])
                      \o <<"NL", "NL">>]

CognitiveHeading == <<"## Cognitive Signature (how this user thinks)", "NL">>

\* f"- {p['pattern']} ({p['confidence']:.0%})"
PatternBullet(p) ==
    <<"-", "SP">> \o Text(Get(p, "pattern", JNull)) \o <<"SP", "(">>
        \o Percent(Hundredths(Get(p, "confidence", JNull))) \o <<")">>

\* the loop over the patterns raises: the stored value is no list, the
\* sort key raises, or a pattern has no "pattern" or no "confidence"
PatternsRaise(patterns) ==
    \/ ~IsList(patterns)
    \/ \E i \in 1..Len(patterns.items) :
          \/ KeyRaises(patterns.items[i])
          \/ ~HasKey(patterns.items[i], "pattern")
          \/ ~HasKey(patterns.items[i], "confidence")

\* f"\nDominant decision archetype: {archetype['dominant']}"
ArchetypeLine(archetype) ==
    <<"NL", "Dominant decision archetype:", "SP">>
        \o Text(Get(archetype, "dominant", JNull))

\* t.get("severity", 0) > 0.5
Active(t) == Hundredths(Get(t, "severity", JInt(0))) > 50

\* the loop over the tensions raises: the stored value cannot be
\* iterated or gives items that are no dicts, a severity is no number,
\* or an active tension has no "strategic_question"
TensionsRaise(tensions) ==
    IF ~IsList(tensions) THEN ~HasLen(tensions) \/ Truthy(tensions)
    ELSE \E i \in 1..Len(tensions.items) :
             LET t == tensions.items[i] IN
             \/ ~IsDict(t)
             \/ ~IsNumber(Get(t, "severity", JInt(0)))
             \/ Active(t) /\ ~HasKey(t, "strategic_question")

TensionsHeading == <<"NL", "Active cognitive tensions:">>

\* f"- {t['strategic_question']}"
TensionBullet(t) ==
    <<"-", "SP">> \o Text(Get(t, "strategic_question", JNull))

InstructionSuffix ==
    <<"NL", "When responding: align with cognitive style.", "SP",
      "Flag contradictions to archetype.", "SP",
      "Apply cross-domain transfer when relevant.", "SP",
      "No lists. Direct prose only. Name patterns by label.", "NL">>

\* a block that is written whatever the store holds
NoPatterns_never(patterns) == FALSE

\* if not patterns
NoPatterns(patterns) == ~Truthy(patterns)

\* format_cognitive_block(config): [ok, val]
format_cognitive_block(pf, tf) ==
    LET patterns_data == load_patterns(pf)
        tensions      == load_tensions(tf)
        patterns  == Get(patterns_data, "cognitive_patterns", JList(<<>>))
        archetype == Get(patterns_data, "decision_archetype", JObj(<<>>))
    IN  IF NoPatterns(patterns) THEN [ok |-> TRUE, val |-> <<>>]
        ELSE IF \/ PatternsRaise(patterns)
                \/ ~IsDict(archetype)
                \/ TensionsRaise(tensions)
        THEN [ok |-> FALSE, val |-> <<>>]
        ELSE LET sorted == Sorted(patterns.items)
                 active == SelectSeq(tensions.items, Active)
             IN  [ok |-> TRUE,
                  val |-> Join(<<CognitiveHeading>>
                      \o [i \in 1..Len(sorted) |-> PatternBullet(sorted[i])]
                      \o (IF Truthy(Get(archetype, "dominant", JNull))
                          THEN <<ArchetypeLine(archetype)>> ELSE <<>>)
                      \o (IF active # <<>>
                          THEN <<TensionsHeading>>
                                \o [i \in 1..Len(active) |->
                                       TensionBullet(active[i])]
                          ELSE <<>>)
                      \o <<InstructionSuffix>>)]

NoPatternsMessage ==
    <<"No cognitive patterns available. Run run_synthesis() first.">>

\* apply_patterns raises before its test of the patterns:
\* patterns_data.get("decision_archetype", {}).get("dominant", ...) on a
\* stored archetype that is no dict
ArchetypeRaises(patterns_data) ==
    ~IsDict(Get(patterns_data, "decision_archetype", JObj(<<>>)))

\* if not patterns
NothingToApply(patterns) == ~Truthy(patterns)

\* the characters of a reply made of words
WordsOf(raw) == [i \in 1..Len(raw) |-> raw[i].s[1]]

\* ------------------------------------------------------------------ bounds

MaxLog         == 2     \* appends in one behaviour
MaxReflections == 2     \* stored reflection_count at which runs stop
MaxSyntheses   == 2     \* stored synthesis_count at which runs stop
MaxHedges      == 8     \* hedging words in one scored answer

\* ------------------------------------------------------------------ inputs

None == JNull

\* EngineConfig: the defaults, and one with a window of one interaction
\* and no confidence floor (confidence in hundredths)
DefaultConfig == [reflection_window |-> 50, min_belief_confidence |-> 60]
Configs == {DefaultConfig,
            [reflection_window |-> 1, min_belief_confidence |-> 0]}

\* <<id, question, answer, extra_tags>> of the calls of the pipeline
Exchanges ==
    {<<"1f3a", <<"what", "SP", "is", "SP", "karma", "SP", "marga">>,
       <<"selfless", "SP", "action">>, <<"spirituality">>>>}

\* and of the calls that exercise the log alone: texts with line breaks,
\* quotes and backslashes, a repeated id, tags given by the caller
LogCalls ==
    {<<"1f3a", <<"Karma", "SP", "yoga">>,
       <<"Maybe", "SP", "not", "SP", "sure">>, <<>>>>,
     <<"1f3a", <<"line", "NL", "break">>, <<"BS", "n", "QT">>, <<"mine">>>>,
     <<"9c2e", <<"tab", "VT", "stop">>, <<"could", "SP", "fix">>,
       <<"debugging", "mine">>>>}
LogLimits == {None, JInt(0), JInt(1), JInt(2)}

Belief(statement, confidence) ==
    JObj(<<JPair("belief", JStr(<<statement>>)),
           JPair("confidence", confidence)>>)
VedicBelief ==
    JObj(<<JPair("belief", JStr(<<"exploring", "SP", "vedic", "SP",
                                  "philosophy">>)),
           JPair("confidence", JFrac(80)),
           JPair("evidence", JStr(<<"asked", "SP", "about", "SP", "margas">>)),
           JPair("category", JStr(<<"domain_knowledge">>))>>)
WeakBelief    == Belief("likes-coding", JFrac(30))
StrongBelief  == Belief("prefers-python", JFrac(90))
NoConfBelief  == JObj(<<JPair("belief", JStr(<<"unrated">>))>>)
TextConfBelief == Belief("mislabelled", JStr(<<"high">>))
Prose == <<WORD("Here"), WORD("you"), WORD("go")>>

\* the belief sets format_belief_block is given; None loads the store
BeliefSets ==
    {None,
     JList(<<>>),
     JList(<<VedicBelief>>),
     JList(<<WeakBelief, StrongBelief, VedicBelief>>),
     JList(<<Belief("likes-rust", JFrac(90)), NoConfBelief, StrongBelief>>)}

\* what the model can answer a reflection prompt with
ReflectionOutputs ==
    {Prose,
     <<INT(42)>>,
     Dumps(JObj(<<JPair("note", JStr(<<"nothing">>))>>)),
     Dumps(JList(<<>>)),
     Dumps(JList(<<VedicBelief>>)),
     Dumps(JList(<<StrongBelief, WeakBelief>>)),
     Dumps(JList(<<NoConfBelief>>)),
     Dumps(JList(<<TextConfBelief>>)),
     Dumps(JList(<<JInt(1)>>)),
     Dumps(JObj(<<JPair("beliefs", JList(<<VedicBelief>>))>>)),
     Prose \o Dumps(JList(<<VedicBelief>>)) \o <<WORD("done")>>,
     <<WORD("see"), P("["), WORD("note"), P("]")>>,
     <<FENCEJSON, NLX>> \o Dumps(JList(<<VedicBelief>>)) \o <<NLX, FENCE>>}

Pattern(statement, confidence) ==
    JObj(<<JPair("pattern", JStr(<<statement>>)),
           JPair("confidence", JFrac(confidence))>>)
Tension(question, severity) ==
    JObj(<<JPair("strategic_question", JStr(<<question>>)),
           JPair("severity", JFrac(severity))>>)
Ladder ==
    JObj(<<JPair("observations", JList(<<JStr(<<"asks-why">>)>>)),
           JPair("themes", JList(<<>>)),
           JPair("patterns", JList(<<>>)),
           JPair("biases", JList(<<>>))>>)
FullResult ==
    JObj(<<JPair("abstraction_ladder", Ladder),
           JPair("cognitive_patterns",
                 JList(<<Pattern("first-principles", 90)>>)),
           JPair("decision_archetype",
                 JObj(<<JPair("dominant", JStr(<<"depth-first">>))>>)),
           JPair("tensions", JList(<<Tension("control-or-speed", 70)>>))>>)
NoPatternResult ==
    JObj(<<JPair("abstraction_ladder", Ladder),
           JPair("cognitive_patterns", JList(<<>>)),
           JPair("decision_archetype", JObj(<<>>)),
           JPair("tensions", JList(<<Tension("depth-or-breadth", 40)>>))>>)
PatternsOnly ==
    JObj(<<JPair("cognitive_patterns",
                 JList(<<Pattern("systems-view", 70)>>))>>)

\* what the model can answer a synthesis prompt with
SynthesisOutputs ==
    {Prose,
     <<INT(42)>>,
     Dumps(JObj(<<>>)),
     Dumps(FullResult),
     Dumps(NoPatternResult),
     Dumps(PatternsOnly),
     Dumps(JList(<<Pattern("first-principles", 90)>>)),
     Dumps(JObj(<<JPair("cognitive_patterns", JNull)>>)),
     Dumps(JObj(<<JPair("cognitive_patterns", JStr(<<"n", "o">>))>>)),
     Dumps(JObj(<<JPair("cognitive_patterns",
                        JList(<<Pattern("systems-view", 70)>>)),
                  JPair("tensions", JNull)>>)),
     Prose \o Dumps(FullResult) \o <<WORD("done")>>,
     <<FENCE, NLX>> \o Dumps(PatternsOnly) \o <<NLX, FENCE, TICK>>}

\* the answers of the model the context blocks are rendered from: for
\* reflection a belief without its statement among them, for synthesis
\* several patterns of equal and of different confidence, tensions at,
\* above and without a severity, a pattern without confidence and an
\* archetype given as a bare label
NoTextBelief == JObj(<<JPair("confidence", JFrac(90))>>)
BlockReflectionOutputs ==
    {Dumps(JList(<<VedicBelief>>)),
     Dumps(JList(<<WeakBelief, StrongBelief>>)),
     Dumps(JList(<<NoConfBelief>>)),
     Dumps(JList(<<NoTextBelief>>))}
RichResult ==
    JObj(<<JPair("cognitive_patterns",
                 JList(<<Pattern("systems-view", 70),
                         Pattern("first-principles", 90),
                         Pattern("bias-to-action", 70)>>)),
           JPair("decision_archetype", JObj(<<JPair("dominant", JNull)>>)),
           JPair("tensions",
                 JList(<<Tension("control-or-speed", 70),
                         Tension("depth-or-breadth", 50),
                         JObj(<<JPair("strategic_question",
                                      JStr(<<"build-or-buy">>))>>)>>))>>)
BarePatternResult ==
    JObj(<<JPair("cognitive_patterns",
                 JList(<<JObj(<<JPair("pattern",
                                      JStr(<<"systems-view">>))>>)>>))>>)
LabelArchetypeResult ==
    JObj(<<JPair("cognitive_patterns",
                 JList(<<Pattern("systems-view", 70)>>)),
           JPair("decision_archetype", JStr(<<"depth-first">>))>>)
BlockSynthesisOutputs ==
    {Prose,
     Dumps(FullResult),
     Dumps(NoPatternResult),
     Dumps(RichResult),
     Dumps(BarePatternResult)}
ApplySynthesisOutputs ==
    {Prose,
     Dumps(FullResult),
     Dumps(NoPatternResult),
     Dumps(LabelArchetypeResult)}

\* what apply_patterns is asked, and what the model answers
Situations == {JStr(<<"langchain", "SP", "or", "SP", "own">>)}
ApplyReplies == {Prose, <<WORD("Build"), WORD("it")>>}

\* the answers that are scored: w words, the first h of them hedging
\* words, the others words that hedge nothing
HedgeWords == <<"maybe", "perhaps", "Maybe", "might", "could", "unclear",
                "depends", "uncertain", "possibly">>
AnswerWith(h, w) ==
    [j \in 1..(2 * w - 1) |->
        IF j % 2 = 0 THEN "SP"
        ELSE LET i == (j + 1) \div 2 IN
             IF i <= h THEN HedgeWords[((i - 1) % Len(HedgeWords)) + 1]
             ELSE IF i % 2 = 0 THEN "mighty" ELSE "fine"]
WordCounts == {12, 50, 51, 599, 600}
ScoredQuestions == {<<"what", "SP", "is", "SP", "karma", "SP", "marga">>,
                    <<"maybe", "SP", "not", "SP", "sure", "SP", "perhaps">>}

\* <<id, question, answer, extra_tags>> of the calls that log an answer
\* of nothing but hedging words, and the calls of LogCalls
HedgedCalls ==
    {<<"77aa", <<"Karma", "SP", "yoga">>,
       AnswerWith(MaxHedges, MaxHedges), <<>>>>} \cup LogCalls

\* and of the calls whose question ends with the first words of a
\* phrase of _TAG_PATTERNS and whose answer begins with its last word,
\* or the other way round, next to a call without such a phrase
TagCalls ==
    {<<"a1b2", <<"i", "SP", "want">>, <<"to", "SP", "go">>, <<>>>>,
     <<"c3d4", <<"right", "SP", "now">>,
       <<"that", "SP", "is", "SP", "not">>, <<>>>>,
     <<"e5f6", <<"Karma", "SP", "yoga">>, <<"selfless", "SP", "action">>,
       <<"mine">>>>}

\* ----------------------------------------------------------------- actions

\* a data directory without documents: events.jsonl is absent, or there
\* and empty
Init ==
    /\ log_file \in {NoFile, File(<<>>)}
    /\ belief_file = NoFile
    /\ pattern_file = NoFile
    /\ tension_file = NoFile
    /\ cfg \in Configs
    /\ pc = "idle"
    /\ loc = NoLocals
    /\ ret = Ret("none", None, "ok", JNull, 0, NoReply)
    /\ appended = <<>>
    /\ crashed = FALSE

\* log_interaction(question, answer, config, extra_tags); id is the
\* uuid drawn, order the order list(set(...)) gives the tags
LogInteraction(id, question, answer, extra_tags) ==
    /\ Len(appended) < MaxLog
    /\ LET auto == _auto_tag(question \o <<"SP">> \o answer) IN
       \E tags \in (IF extra_tags # <<>>
                    THEN Orders(Range(auto) \cup Range(extra_tags))
                    ELSE {auto}) :
          LET entry == Entry(id, question, answer, tags) IN
          /\ log_file' = AppendText(log_file, Dumps(entry) \o <<NLX>>)
          /\ ret' = Ret("log_interaction", None, "ok", entry, 0, NoReply)
          /\ appended' = Append(appended, entry)
    /\ UNCHANGED <<belief_file, pattern_file, tension_file, cfg, pc, loc>>
    /\ UNCHANGED crashed

\* _score_confidence(question, answer) for an answer of w words, h of
\* them hedging words; the function keeps no state, and a behaviour
\* scores one answer, before its other calls
ScoreConfidence(question, h, w) ==
    /\ pc = "idle"
    /\ ret.op = "none"
    /\ ret' = Ret("_score_confidence",
                  JList(<<JStr(question), JInt(h), JInt(w)>>), "ok",
                  JFrac(_score_confidence(question, AnswerWith(h, w))),
                  0, NoReply)
    /\ UNCHANGED <<files, cfg, pc, loc, appended>>
    /\ UNCHANGED crashed

\* load_log(n, config)
LoadLog(n) ==
    /\ pc = "idle"
    /\ LET got == load_log(n, log_file) IN
       ret' = IF got.ok
              THEN Ret("load_log", n, "ok", JList(got.val), 0, NoReply)
              ELSE Ret("load_log", n, "raised", JNull, 0, NoReply)
    /\ UNCHANGED <<files, cfg, pc, loc, appended>>
    /\ UNCHANGED crashed

\* log_count(config)
LogCount ==
    /\ pc = "idle"
    /\ ret' = Ret("log_count", None, "ok", JInt(log_count(log_file)), 0,
                  NoReply)
    /\ UNCHANGED <<files, cfg, pc, loc, appended>>
    /\ UNCHANGED crashed

\* a loader that leaves an empty Belief document where it found none
LoadBeliefs_creating ==
    /\ pc = "idle"
    /\ ret' = Ret("load_beliefs", None, "ok", load_beliefs(belief_file), 0,
                  NoReply)
    /\ belief_file' = IF belief_file.exists THEN belief_file
                      ELSE _save_beliefs(JList(<<>>), 0)
    /\ UNCHANGED <<log_file, pattern_file, tension_file, cfg, pc, loc,
                   appended>>
    /\ UNCHANGED crashed

\* load_beliefs(config)
LoadBeliefs ==
    /\ pc = "idle"
    /\ ret' = Ret("load_beliefs", None, "ok", load_beliefs(belief_file), 0,
                  NoReply)
    /\ UNCHANGED <<files, cfg, pc, loc, appended>>
    /\ UNCHANGED crashed

\* load_patterns(config)
LoadPatterns ==
    /\ pc = "idle"
    /\ ret' = Ret("load_patterns", None, "ok", load_patterns(pattern_file),
                  0, NoReply)
    /\ UNCHANGED <<files, cfg, pc, loc, appended>>
    /\ UNCHANGED crashed

\* load_tensions(config)
LoadTensions ==
    /\ pc = "idle"
    /\ ret' = Ret("load_tensions", None, "ok", load_tensions(tension_file),
                  0, NoReply)
    /\ UNCHANGED <<files, cfg, pc, loc, appended>>
    /\ UNCHANGED crashed

\* format_belief_block(beliefs, config)
FormatBeliefBlock(beliefs) ==
    /\ pc = "idle"
    /\ LET got == format_belief_block(beliefs, belief_file) IN
       ret' = IF got.ok
              THEN Ret("format_belief_block", beliefs, "ok", JStr(got.val),
                       0, NoReply)
              ELSE Ret("format_belief_block", beliefs, "raised", JNull, 0,
                       NoReply)
    /\ UNCHANGED <<files, cfg, pc, loc, appended>>
    /\ UNCHANGED crashed

\* a block that tells how many interactions the log holds
FormatCognitiveBlock_counting ==
    /\ pc = "idle"
    /\ LET got == format_cognitive_block(pattern_file, tension_file) IN
       ret' = IF got.ok
              THEN Ret("format_cognitive_block", None, "ok",
                       JStr(got.val \o NumChars(log_count(log_file))),
                       0, NoReply)
              ELSE Ret("format_cognitive_block", None, "raised", JNull, 0,
                       NoReply)
    /\ UNCHANGED <<files, cfg, pc, loc, appended>>
    /\ UNCHANGED crashed

\* format_cognitive_block(config)
FormatCognitiveBlock ==
    /\ pc = "idle"
    /\ LET got == format_cognitive_block(pattern_file, tension_file) IN
       ret' = IF got.ok
              THEN Ret("format_cognitive_block", None, "ok", JStr(got.val),
                       0, NoReply)
              ELSE Ret("format_cognitive_block", None, "raised", JNull, 0,
                       NoReply)
    /\ UNCHANGED <<files, cfg, pc, loc, appended>>
    /\ UNCHANGED crashed

\* run_reflection up to the model call (reflection.py 121-146)
ReflectBegin ==
    /\ pc = "idle"
    /\ StoredReflectionCount(belief_file) < MaxReflections
    /\ LET got == load_log(JInt(cfg.reflection_window), log_file) IN
       IF ~got.ok
       THEN /\ ret' = Ret("run_reflection", None, "raised", JNull, 0,
                           NoReply)
            /\ UNCHANGED <<pc, loc>>
       ELSE IF NoEntries(got.val)
       THEN /\ ret' = Ret("run_reflection", None, "ok", JList(<<>>), 0,
                           NoReply)
            /\ UNCHANGED <<pc, loc>>
       ELSE /\ pc' = "reflect_call"
            /\ loc' = [entries  |-> got.val,
                       existing |-> load_beliefs(belief_file).items,
                       count    |-> StoredReflectionCount(belief_file),
                       total_events |-> 0,
                       situation |-> JNull]
            /\ ret' = Ret("run_reflection", None, "pending", JNull, 1,
                           NoReply)
    /\ UNCHANGED <<files, cfg, appended>>
    /\ UNCHANGED crashed

\* a run that rotates the log when it persists
ReflectReturn_rotating(raw) ==
    /\ pc = "reflect_call"
    /\ belief_file' =
           _save_beliefs(FilterBeliefs(_parse_beliefs(raw),
                                       cfg.min_belief_confidence).val,
                         NextReflectionCount(loc.count))
    /\ log_file' = File(<<>>)
    /\ ret' = Ret("run_reflection", None, "ok",
                  FilterBeliefs(_parse_beliefs(raw),
                                cfg.min_belief_confidence).val,
                  1, Reply(raw))
    /\ pc' = "idle"
    /\ loc' = NoLocals
    /\ UNCHANGED <<pattern_file, tension_file, cfg, appended, crashed>>

\* the model answers raw: parse, filter, persist (reflection.py 146-155)
ReflectReturn(raw) ==
    /\ pc = "reflect_call"
    /\ LET beliefs  == _parse_beliefs(raw)
           filtered == FilterBeliefs(beliefs, cfg.min_belief_confidence)
       IN  IF ~filtered.ok
           THEN /\ ret' = Ret("run_reflection", None, "raised", JNull, 1,
                               Reply(raw))
                /\ UNCHANGED belief_file
           ELSE /\ belief_file' =
                       _save_beliefs(BeliefsToSave(loc.existing,
                                                   filtered.val),
                                     NextReflectionCount(loc.count))
                /\ ret' = Ret("run_reflection", None, "ok", filtered.val, 1,
                               Reply(raw))
    /\ pc' = "idle"
    /\ loc' = NoLocals
    /\ UNCHANGED <<log_file, pattern_file, tension_file, cfg, appended>>
    /\ UNCHANGED crashed

\* a run that takes the error of the model for an empty answer
ReflectCallFails_swallowed ==
    /\ pc = "reflect_call"
    /\ belief_file' = _save_beliefs(JList(<<>>), NextReflectionCount(loc.count))
    /\ ret' = Ret("run_reflection", None, "ok", JList(<<>>), 1, NoReply)
    /\ pc' = "idle"
    /\ loc' = NoLocals
    /\ UNCHANGED <<log_file, pattern_file, tension_file, cfg, appended>>
    /\ UNCHANGED crashed

\* the model call raises (llm.py 44-52)
ReflectCallFails ==
    /\ pc = "reflect_call"
    /\ ret' = Ret("run_reflection", None, "llm_error", JNull, 1, NoReply)
    /\ pc' = "idle"
    /\ loc' = NoLocals
    /\ UNCHANGED <<files, cfg, appended>>
    /\ UNCHANGED crashed

\* run_synthesis up to the model call (synthesis.py 170-191)
SynthBegin ==
    /\ pc = "idle"
    /\ Get(load_patterns(pattern_file), "synthesis_count", JInt(0)).n
           < MaxSyntheses
    /\ LET beliefs == load_beliefs(belief_file) IN
       IF NoBeliefs(beliefs)
       THEN /\ ret' = Ret("run_synthesis", None, "ok", JObj(<<>>), 0,
                           NoReply)
            /\ UNCHANGED <<pc, loc>>
       ELSE /\ pc' = "synth_call"
            /\ loc' = [entries  |-> <<>>,
                       existing |-> beliefs.items,
                       count    |-> Get(load_patterns(pattern_file),
                                        "synthesis_count", JInt(0)).n,
                       total_events |-> log_count(log_file),
                       situation |-> JNull]
            /\ ret' = Ret("run_synthesis", None, "pending", JNull, 1,
                           NoReply)
    /\ UNCHANGED <<files, cfg, appended>>
    /\ UNCHANGED crashed

\* the model answers raw: parse, persist both files (synthesis.py 191-206)
SynthReturn(raw) ==
    /\ pc = "synth_call"
    /\ LET result == _parse_result(raw) IN
       IF EmptyResult(result)
       THEN /\ ret' = Ret("run_synthesis", None, "ok", JObj(<<>>), 1,
                           Reply(raw))
            /\ UNCHANGED <<pattern_file, tension_file>>
       ELSE IF SaveRaises(result)
       THEN /\ ret' = Ret("run_synthesis", None, "raised", JNull, 1,
                           Reply(raw))
            /\ UNCHANGED <<pattern_file, tension_file>>
       ELSE /\ pattern_file' =
                   File(Dumps(PatternData(result,
                                          NextSynthesisCount(loc.count),
                                          loc.total_events)))
            /\ tension_file' = File(Dumps(TensionData(result)))
            /\ ret' = IF CountRaises(result)
                      THEN Ret("run_synthesis", None, "raised", JNull, 1,
                               Reply(raw))
                      ELSE Ret("run_synthesis", None, "ok", result, 1,
                               Reply(raw))
    /\ pc' = "idle"
    /\ loc' = NoLocals
    /\ UNCHANGED <<log_file, belief_file, cfg, appended>>
    /\ UNCHANGED crashed

\* the process dies between the two writes of _save_synthesis
\* (synthesis.py 66-73)
SynthCrashBetweenWrites(raw) ==
    /\ pc = "synth_call"
    /\ LET result == _parse_result(raw) IN
       /\ ~EmptyResult(result)
       /\ ~SaveRaises(result)
       /\ pattern_file' =
              File(Dumps(PatternData(result, NextSynthesisCount(loc.count),
                                     loc.total_events)))
    /\ ret' = Ret("run_synthesis", None, "crashed", JNull, 1, Reply(raw))
    /\ pc' = "idle"
    /\ loc' = NoLocals
    /\ UNCHANGED <<log_file, belief_file, tension_file, cfg, appended>>
    /\ crashed' = TRUE

\* a run that calls the model again when the call has failed
SynthCallFails_retrying ==
    /\ pc = "synth_call"
    /\ ret' = Ret("run_synthesis", None, "pending", JNull, 2, NoReply)
    /\ UNCHANGED <<files, cfg, pc, loc, appended>>
    /\ UNCHANGED crashed

\* the model call raises (llm.py 44-52)
SynthCallFails ==
    /\ pc = "synth_call"
    /\ ret' = Ret("run_synthesis", None, "llm_error", JNull, 1, NoReply)
    /\ pc' = "idle"
    /\ loc' = NoLocals
    /\ UNCHANGED <<files, cfg, appended>>
    /\ UNCHANGED crashed

\* apply_patterns up to the model call (synthesis.py 230-255)
ApplyBegin(situation) ==
    /\ pc = "idle"
    /\ LET patterns_data == load_patterns(pattern_file)
           patterns == Get(patterns_data, "cognitive_patterns", JList(<<>>))
       IN  IF ArchetypeRaises(patterns_data)
           THEN /\ ret' = Ret("apply_patterns", situation, "raised", JNull,
                               0, NoReply)
                /\ UNCHANGED <<pc, loc>>
           ELSE IF NothingToApply(patterns)
           THEN /\ ret' = Ret("apply_patterns", situation, "ok",
                               JStr(NoPatternsMessage), 0, NoReply)
                /\ UNCHANGED <<pc, loc>>
           ELSE /\ pc' = "apply_call"
                /\ loc' = [NoLocals EXCEPT !.situation = situation]
                /\ ret' = Ret("apply_patterns", situation, "pending", JNull,
                               1, NoReply)
    /\ UNCHANGED <<files, cfg, appended>>
    /\ UNCHANGED crashed

\* the model answers raw, which apply_patterns returns as it is
ApplyReturn(raw) ==
    /\ pc = "apply_call"
    /\ ret' = Ret("apply_patterns", loc.situation, "ok",
                  JStr(WordsOf(raw)), 1, Reply(raw))
    /\ pc' = "idle"
    /\ loc' = NoLocals
    /\ UNCHANGED <<files, cfg, appended>>
    /\ UNCHANGED crashed

\* the model call raises (llm.py 44-52)
ApplyCallFails ==
    /\ pc = "apply_call"
    /\ ret' = Ret("apply_patterns", loc.situation, "llm_error", JNull, 1,
                  NoReply)
    /\ pc' = "idle"
    /\ loc' = NoLocals
    /\ UNCHANGED <<files, cfg, appended>>
    /\ UNCHANGED crashed

\* the whole pipeline: appends, reflection runs and synthesis runs
Next ==
    \/ \E x \in Exchanges : LogInteraction(x[1], x[2], x[3], x[4])
    \/ ReflectBegin
    \/ \E raw \in ReflectionOutputs : ReflectReturn(raw)
    \/ ReflectCallFails
    \/ SynthBegin
    \/ \E raw \in SynthesisOutputs : SynthReturn(raw)
    \/ \E raw \in SynthesisOutputs : SynthCrashBetweenWrites(raw)
    \/ SynthCallFails

Spec == Init /\ [][Next]_vars

\* the pipeline with every answer of the model to a reflection prompt and
\* one answer to a synthesis prompt
NextReflection ==
    \/ \E x \in Exchanges : LogInteraction(x[1], x[2], x[3], x[4])
    \/ ReflectBegin
    \/ \E raw \in ReflectionOutputs : ReflectReturn(raw)
    \/ ReflectCallFails
    \/ SynthBegin
    \/ SynthReturn(Dumps(FullResult))

SpecReflection == Init /\ [][NextReflection]_vars

\* the pipeline under the default configuration with two answers of the
\* model to a reflection prompt and every answer to a synthesis prompt
InitDefault == Init /\ cfg = DefaultConfig

NextSynthesis ==
    \/ \E x \in Exchanges : LogInteraction(x[1], x[2], x[3], x[4])
    \/ ReflectBegin
    \/ \E raw \in {Dumps(JList(<<VedicBelief>>)), Prose} : ReflectReturn(raw)
    \/ ReflectCallFails
    \/ SynthBegin
    \/ \E raw \in SynthesisOutputs : SynthReturn(raw)
    \/ \E raw \in SynthesisOutputs : SynthCrashBetweenWrites(raw)
    \/ SynthCallFails

SpecSynthesis == InitDefault /\ [][NextSynthesis]_vars

\* the log alone: appends, and the two ways of reading it
NextLog ==
    \/ \E x \in LogCalls : LogInteraction(x[1], x[2], x[3], x[4])
    \/ \E n \in LogLimits : LoadLog(n)
    \/ LogCount

SpecLog == Init /\ [][NextLog]_vars

\* the context blocks over the stores the two stages leave
NextBlocks ==
    \/ \E x \in Exchanges : LogInteraction(x[1], x[2], x[3], x[4])
    \/ ReflectBegin
    \/ \E raw \in BlockReflectionOutputs : ReflectReturn(raw)
    \/ SynthBegin
    \/ \E raw \in BlockSynthesisOutputs : SynthReturn(raw)
    \/ \E beliefs \in BeliefSets : FormatBeliefBlock(beliefs)
    \/ FormatCognitiveBlock

SpecBlocks == Init /\ [][NextBlocks]_vars

\* the transfer of the stored patterns to a situation
NextApply ==
    \/ \E x \in Exchanges : LogInteraction(x[1], x[2], x[3], x[4])
    \/ ReflectBegin
    \/ ReflectReturn(Dumps(JList(<<VedicBelief>>)))
    \/ SynthBegin
    \/ \E raw \in ApplySynthesisOutputs : SynthReturn(raw)
    \/ \E situation \in Situations : ApplyBegin(situation)
    \/ \E raw \in ApplyReplies : ApplyReturn(raw)
    \/ ApplyCallFails

SpecApply == InitDefault /\ [][NextApply]_vars

\* the confidence score, of answers built to measure and of the answers
\* that are logged
NextScore ==
    \/ \E c \in HedgedCalls : LogInteraction(c[1], c[2], c[3], c[4])
    \/ \E question \in ScoredQuestions, h \in 0..MaxHedges, w \in WordCounts :
          ScoreConfidence(question, h, w)

SpecScore == InitDefault /\ [][NextScore]_vars

\* the labels of the interactions that are logged
NextTags ==
    \/ \E c \in TagCalls \cup LogCalls :
          LogInteraction(c[1], c[2], c[3], c[4])
    \/ \E n \in LogLimits : LoadLog(n)

SpecTags == Init /\ [][NextTags]_vars

\* every operation of the package, the stages with an answer the run
\* persists and an answer it cannot parse
NextFrame ==
    \/ \E x \in Exchanges : LogInteraction(x[1], x[2], x[3], x[4])
    \/ \E n \in {None, JInt(1)} : LoadLog(n)
    \/ LogCount
    \/ LoadBeliefs
    \/ LoadPatterns
    \/ LoadTensions
    \/ FormatBeliefBlock(None)
    \/ FormatCognitiveBlock
    \/ ReflectBegin
    \/ \E raw \in {Dumps(JList(<<VedicBelief>>)), Prose} : ReflectReturn(raw)
    \/ ReflectCallFails
    \/ SynthBegin
    \/ \E raw \in {Dumps(FullResult), Prose} : SynthReturn(raw)
    \/ SynthCallFails
    \/ \E situation \in Situations : ApplyBegin(situation)
    \/ \E raw \in ApplyReplies : ApplyReturn(raw)
    \/ ApplyCallFails

SpecFrame == InitDefault /\ [][NextFrame]_vars

\* two different interactions, logged before, between and while the two
\* stages run and wait for the model, under both configurations
InterleavedCalls ==
    Exchanges \cup {c \in LogCalls : c[3] = <<"Maybe", "SP", "not", "SP",
                                              "sure">>}
NextInterleaved ==
    \/ \E c \in InterleavedCalls : LogInteraction(c[1], c[2], c[3], c[4])
    \/ ReflectBegin
    \/ ReflectReturn(Dumps(JList(<<VedicBelief>>)))
    \/ SynthBegin
    \/ SynthReturn(Dumps(FullResult))

SpecInterleaved == Init /\ [][NextInterleaved]_vars

\* ------------------------------------------------------------- properties

\* C1: from a log that does not exist, after any sequence of appends
\* load_log() with no limit gives exactly the entries log_interaction
\* returned, in the order of the calls, log_count() is their number, and
\* every load_log() or log_count() answer a caller holds while no append
\* has followed it is that same answer
C1_LoadReturnsAppendsInOrder ==
    /\ load_log(None, log_file) = [ok |-> TRUE, val |-> appended]
    /\ log_count(log_file) = Len(appended)
    /\ (ret.op = "load_log" /\ ret.arg = None)
           => ret = Ret("load_log", None, "ok", JList(appended), 0, NoReply)
    /\ ret.op = "log_count" => ret.val = JInt(Len(appended))

\* two entries appended, one of them with a line break in its question,
\* and load_log() has just returned both
C1_Witness ==
    /\ ret.op = "load_log" /\ ret.arg = None /\ ret.outcome = "ok"
    /\ Len(ret.val.items) = 2
    /\ ret.val.items = appended
    /\ \E i \in 1..2 : "NL" \in Range(Get(appended[i], "question", JNull).s)

\* what the documents hold, read for the properties
BeliefsOnDisk ==
    IF belief_file.exists
    THEN Get(DocOf(belief_file), "beliefs", JList(<<>>)).items ELSE <<>>
ReflectionCountOn(f) ==
    IF f.exists THEN Get(DocOf(f), "reflection_count", JInt(0)).n ELSE 0
SynthesisCountOn(f) ==
    IF f.exists THEN Get(DocOf(f), "synthesis_count", JInt(0)).n ELSE 0
docs == <<belief_file, pattern_file, tension_file>>

\* C2 as stated: every stored belief carries a confidence, a number that
\* is at least min_belief_confidence, so that a belief the model returned
\* without a confidence is never stored
C2_EveryStoredBeliefHasConfidenceAtLeastFloor ==
    \A i \in 1..Len(BeliefsOnDisk) :
        /\ HasKey(BeliefsOnDisk[i], "confidence")
        /\ IsNumber(Get(BeliefsOnDisk[i], "confidence", JNull))
        /\ Hundredths(Get(BeliefsOnDisk[i], "confidence", JNull))
               >= cfg.min_belief_confidence

\* C2 amended: every stored belief has a confidence, a missing one counted
\* as 0, that is at least min_belief_confidence; a belief without a
\* confidence is stored only under a floor of 0 or less
C2_StoredBeliefsMeetFloor ==
    \A i \in 1..Len(BeliefsOnDisk) :
        LET b == BeliefsOnDisk[i] IN
        /\ IsDict(b)
        /\ IsNumber(Get(b, "confidence", JInt(0)))
        /\ Hundredths(Get(b, "confidence", JInt(0)))
               >= cfg.min_belief_confidence
        /\ cfg.min_belief_confidence > 0 => HasKey(b, "confidence")

\* under a floor of 0.6 the model returned a belief of 0.9 and one of
\* 0.3, and the document holds the first alone
C2_Witness ==
    /\ cfg.min_belief_confidence = 60
    /\ ret.op = "run_reflection" /\ ret.outcome = "ok"
    /\ ret.reply = Reply(Dumps(JList(<<StrongBelief, WeakBelief>>)))
    /\ BeliefsOnDisk = <<StrongBelief>>

\* C3: a reflection run that persists stores the reflection_count it
\* read (0 without a document) plus one, and no other step changes the
\* stored reflection_count
C3_ReflectionCountStepsByOne ==
    [][LET before   == ReflectionCountOn(belief_file)
           after    == ReflectionCountOn(belief_file')
           persists == /\ pc = "reflect_call" /\ pc' = "idle"
                       /\ ret'.outcome = "ok"
       IN  /\ persists => belief_file'.exists /\ after = before + 1
           /\ ~persists => after = before]_vars

\* the second persisted run of a data directory has stored the single
\* belief the model returned, with reflection_count 2
C3_Witness ==
    /\ ret.op = "run_reflection" /\ ret.outcome = "ok" /\ ret.calls = 1
    /\ ret.val = JList(<<VedicBelief>>)
    /\ BeliefsOnDisk = <<VedicBelief>>
    /\ ReflectionCountOn(belief_file) = 2

\* C4: run_reflection with nothing in the log returns the empty list,
\* calls no model and writes no file
C4_EmptyLogAborts ==
    [][(/\ ~log_file.exists \/ log_file.text = <<>>
        /\ pc = "idle" /\ ret'.op = "run_reflection")
          => /\ ret' = Ret("run_reflection", None, "ok", JList(<<>>), 0,
                           NoReply)
             /\ pc' = "idle"
             /\ files' = files]_vars

\* run_reflection has returned over a log that is there and empty, and
\* there is still no Belief document
C4_Witness ==
    /\ ret = Ret("run_reflection", None, "ok", JList(<<>>), 0, NoReply)
    /\ log_file = File(<<>>)
    /\ ~belief_file.exists

MalformedOutputs ==
    {Prose, Prose \o Dumps(JList(<<VedicBelief>>)) \o <<WORD("done")>>}

\* C5 as stated: a reflection run whose model output is prose around an
\* array, or plain text, returns the empty list and leaves the Belief
\* document as it was
C5_MalformedOutputLeavesBeliefsUntouched ==
    [][(/\ pc = "reflect_call" /\ pc' = "idle"
        /\ ret'.reply \in {Reply(raw) : raw \in MalformedOutputs})
          => /\ ret'.val = JList(<<>>)
             /\ belief_file' = belief_file]_vars

\* C6 as stated: whatever text the model returns, run_reflection and
\* run_synthesis return to their caller without raising
C6_NoModelTextMakesARunRaise ==
    (ret.op \in {"run_reflection", "run_synthesis"} /\ ret.reply.ok)
        => ret.outcome # "raised"

\* C7: no step up to the model call writes a document, and a run whose
\* model call fails ends with the error of the adapter and has changed
\* no file
C7_FailedCallChangesNothing ==
    [][/\ pc' # "idle" => docs' = docs
       /\ (pc # "idle" /\ pc' = "idle" /\ ret'.calls = 1 /\ ~ret'.reply.ok)
             => /\ ret'.outcome = "llm_error"
                /\ files' = files]_vars

\* the model call of a synthesis run has failed over documents of
\* earlier runs
C7_Witness ==
    /\ ret.op = "run_synthesis" /\ ret.outcome = "llm_error"
    /\ belief_file.exists /\ pattern_file.exists /\ tension_file.exists
    /\ SynthesisCountOn(pattern_file) = 1

\* C8: run_synthesis over an empty stored belief set returns the empty
\* dict, calls no model and writes no file
C8_NoBeliefsAborts ==
    [][(BeliefsOnDisk = <<>> /\ pc = "idle" /\ ret'.op = "run_synthesis")
          => /\ ret' = Ret("run_synthesis", None, "ok", JObj(<<>>), 0,
                           NoReply)
             /\ pc' = "idle"
             /\ files' = files]_vars

\* run_synthesis has returned over a Belief document whose list is empty
C8_Witness ==
    /\ ret = Ret("run_synthesis", None, "ok", JObj(<<>>), 0, NoReply)
    /\ belief_file.exists
    /\ BeliefsOnDisk = <<>>
    /\ ~pattern_file.exists /\ ~tension_file.exists

TopLevelFields == {"abstraction_ladder", "cognitive_patterns",
                   "decision_archetype", "tensions"}
HasAllFields(v) == IsDict(v) /\ \A f \in TopLevelFields : HasKey(v, f)

C10_SynthesisCountStepsByOne ==
    [][LET before  == SynthesisCountOn(pattern_file)
           after   == SynthesisCountOn(pattern_file')
           returns == pc = "synth_call" /\ pc' = "idle"
           success == returns /\ ret'.outcome = "ok" /\ Truthy(ret'.val)
       IN  /\ success
              => /\ after = before + 1
                 /\ Get(DocOf(pattern_file'), "cognitive_patterns", JNull)
                       = Get(ret'.val, "cognitive_patterns", JList(<<>>))
                 /\ Get(DocOf(tension_file'), "tensions", JNull)
                       = Get(ret'.val, "tensions", JList(<<>>))
           /\ after # before
              => returns /\ ret'.op = "run_synthesis" /\ after = before + 1
       ]_vars

\* from an empty directory: one stored belief, one synthesis run that
\* succeeded, synthesis_count 1
C10_Witness ==
    /\ ret.op = "run_synthesis" /\ ret.outcome = "ok"
    /\ ret.val = FullResult
    /\ Len(BeliefsOnDisk) = 1
    /\ ReflectionCountOn(belief_file) = 1
    /\ SynthesisCountOn(pattern_file) = 1
    /\ Get(DocOf(tension_file), "tensions", JNull)
           = Get(FullResult, "tensions", JNull)

\* C11: a log_interaction leaves the bytes of the log as a prefix of the
\* new log and adds one record at its end, the entry it returns; no
\* other step changes the log
C11_LogIsAppendOnly ==
    [][LET before == load_log(None, log_file).val
           after  == load_log(None, log_file').val
       IN  IF appended' # appended
           THEN /\ ret'.op = "log_interaction"
                /\ log_file'.exists
                /\ Len(log_file'.text) > Len(log_file.text)
                /\ SubSeq(log_file'.text, 1, Len(log_file.text))
                       = log_file.text
                /\ after = Append(before, ret'.val)
           ELSE log_file' = log_file]_vars

\* the second of two different interactions has been appended, and the
\* log is the line of the first followed by the line of the second
C11_Witness ==
    /\ ret.op = "log_interaction"
    /\ Len(appended) = 2
    /\ appended[1] # appended[2]
    /\ ret.val = appended[2]
    /\ log_file.text = Dumps(appended[1]) \o <<NLX>>
                           \o Dumps(appended[2]) \o <<NLX>>

\* C12 as stated: load_log(n) with a limit n >= 0 over a log of m records
\* returns the min(n, m) records appended last, oldest first
C12_LoadReturnsTheLastN ==
    (/\ ret.op = "load_log" /\ ret.outcome = "ok"
     /\ ret.arg # None /\ ret.arg.n >= 0)
        => LET m == Len(appended)
               k == Min(ret.arg.n, m)
           IN  ret.val.items = SubSeq(appended, m - k + 1, m)

\* C13: after a reflection run that persists, load_beliefs() is the list
\* of the beliefs of the model output that pass the confidence filter,
\* in the order of the output, and so is the list returned; a belief
\* stored before is stored after only if the output holds it
C13_ReflectionReplacesBeliefSet ==
    [][(pc = "reflect_call" /\ pc' = "idle" /\ ret'.outcome = "ok")
          => LET parsed  == _parse_beliefs(ret'.reply.text).items
                 passing ==
                     SelectSeq(parsed,
                               LAMBDA b :
                                   Hundredths(Get(b, "confidence", JInt(0)))
                                       >= cfg.min_belief_confidence)
                 after   == load_beliefs(belief_file')
             IN  /\ after = JList(passing)
                 /\ ret'.val = JList(passing)
                 /\ \A i \in 1..Len(BeliefsOnDisk) :
                       BeliefsOnDisk[i] \in Range(after.items)
                           => BeliefsOnDisk[i] \in Range(parsed)]_vars

\* the second persisted run of a directory has stored the one belief of
\* its output that passes the floor of 0.6, and nothing else
C13_Witness ==
    /\ cfg.min_belief_confidence = 60
    /\ ret.op = "run_reflection" /\ ret.outcome = "ok"
    /\ ret.reply = Reply(Dumps(JList(<<StrongBelief, WeakBelief>>)))
    /\ ReflectionCountOn(belief_file) = 2
    /\ load_beliefs(belief_file) = JList(<<StrongBelief>>)

\* C14 as stated: format_belief_block returns the empty string for an
\* empty belief set, given or loaded from the store, and otherwise the
\* heading and one bullet per belief, in an order of non-increasing
\* confidence, each bullet with the confidence as a percentage
C14_BeliefBlockListsEveryBelief ==
    ret.op = "format_belief_block"
        => LET bs == (IF ret.arg = None THEN load_beliefs(belief_file)
                      ELSE ret.arg).items
           IN  /\ ret.outcome = "ok"
               /\ IF bs = <<>> THEN ret.val = JStr(<<>>)
                  ELSE \E order \in Orders(1..Len(bs)) :
                          /\ \A i \in 1..(Len(bs) - 1) :
                                ConfidenceOf(bs[order[i]])
                                    >= ConfidenceOf(bs[order[i + 1]])
                          /\ ret.val =
                                JStr(Join(<<BeliefHeading>>
                                          \o [i \in 1..Len(bs) |->
                                                 BeliefBullet(bs[order[i]])])
                                     \o <<"NL", "NL">>)

\* C15 as stated: format_cognitive_block returns the empty string exactly
\* when the store holds no cognitive patterns; otherwise the heading, a
\* bullet per stored pattern in an order of non-increasing confidence,
\* the archetype line iff a dominant archetype is stored, the strategic
\* question of each tension iff its severity is above 0.5, and at the
\* end the instruction suffix
C15_CognitiveBlockRendersTheStore ==
    ret.op = "format_cognitive_block"
        => LET data      == load_patterns(pattern_file)
               ps        == Get(data, "cognitive_patterns", JList(<<>>)).items
               archetype == Get(data, "decision_archetype", JObj(<<>>))
               ts        == load_tensions(tension_file).items
               asked     == SelectSeq(ts, LAMBDA t :
                                Hundredths(Get(t, "severity", JInt(0))) > 50)
           IN  /\ ret.outcome = "ok"
               /\ (ret.val = JStr(<<>>)) <=> (ps = <<>>)
               /\ ps # <<>>
                    => \E order \in Orders(1..Len(ps)) :
                          /\ \A i \in 1..(Len(ps) - 1) :
                                ConfidenceOf(ps[order[i]])
                                    >= ConfidenceOf(ps[order[i + 1]])
                          /\ ret.val =
                                JStr(Join(
                                    <<CognitiveHeading>>
                                    \o [i \in 1..Len(ps) |->
                                           PatternBullet(ps[order[i]])]
                                    \o (IF Get(archetype, "dominant", JNull)
                                              # JNull
                                        THEN <<ArchetypeLine(archetype)>>
                                        ELSE <<>>)
                                    \o (IF asked # <<>>
                                        THEN <<TensionsHeading>>
                                              \o [i \in 1..Len(asked) |->
                                                     TensionBullet(asked[i])]
                                        ELSE <<>>)
                                    \o <<InstructionSuffix>>))

\* the last call was a synthesis run whose model output parsed empty
LastSynthesisParsedEmpty ==
    /\ ret.op = "run_synthesis" /\ ret.outcome = "ok"
    /\ ret.calls = 1 /\ ret.val = JObj(<<>>)

\* C16 as stated: format_cognitive_block returns no text but the empty
\* string when synthesis has never run and when the last synthesis run
\* parsed empty, whatever the runs before it stored
C16_EmptyBlockAfterEmptyParse ==
    [][(/\ ret'.op = "format_cognitive_block"
        /\ ~pattern_file.exists \/ LastSynthesisParsedEmpty)
          => ~(ret'.outcome = "ok" /\ ret'.val # JStr(<<>>))]_vars

\* C16 amended: format_cognitive_block returns the empty string whenever
\* the store holds no cognitive patterns, which is so when no synthesis
\* run has persisted; a run that parsed empty has written nothing, and
\* the block called after it is empty exactly when the store held no
\* patterns before that run
C16_EmptyBlockWithoutStoredPatterns ==
    [][ret'.op = "format_cognitive_block"
          => LET ps == Get(load_patterns(pattern_file), "cognitive_patterns",
                           JList(<<>>))
                 empty == Ret("format_cognitive_block", None, "ok",
                              JStr(<<>>), 0, NoReply)
             IN  /\ ~pattern_file.exists => ret' = empty
                 /\ ~Truthy(ps) => ret' = empty
                 /\ LastSynthesisParsedEmpty
                       => (ret' = empty <=> ~Truthy(ps))]_vars

\* the block is empty over the store of a second synthesis run, whose
\* result held no patterns
C16_Witness ==
    /\ ret = Ret("format_cognitive_block", None, "ok", JStr(<<>>), 0,
                 NoReply)
    /\ pattern_file.exists
    /\ SynthesisCountOn(pattern_file) = 2
    /\ Get(DocOf(pattern_file), "cognitive_patterns", JNull) = JList(<<>>)
    /\ load_tensions(tension_file) # JList(<<>>)

\* C17: what format_belief_block() and format_cognitive_block() give is
\* determined by the Belief, Pattern and Tension documents alone,
\* whatever the log, the configuration and the calls made before, and a
\* call repeated at once gives what the call before it gave
C17_BlocksDependOnStoreOnly ==
    [][/\ (ret'.op = "format_belief_block" /\ ret'.arg = None)
             => LET got == format_belief_block(None, belief_file') IN
                /\ ret'.outcome = (IF got.ok THEN "ok" ELSE "raised")
                /\ got.ok => ret'.val = JStr(got.val)
       /\ ret'.op = "format_cognitive_block"
             => LET got == format_cognitive_block(pattern_file',
                                                  tension_file') IN
                /\ ret'.outcome = (IF got.ok THEN "ok" ELSE "raised")
                /\ got.ok => ret'.val = JStr(got.val)
       /\ (/\ ret'.op \in {"format_belief_block", "format_cognitive_block"}
           /\ ret.op = ret'.op /\ ret.arg = ret'.arg)
             => ret' = ret
       /\ ret'.op \in {"format_belief_block", "format_cognitive_block"}
             => docs' = docs]_vars

\* the cognitive block has been rendered over the store of a synthesis
\* run made when the log held one interaction, and the log holds two
C17_Witness ==
    /\ ret.op = "format_cognitive_block" /\ ret.outcome = "ok"
    /\ ret.val # JStr(<<>>)
    /\ Len(appended) = 2
    /\ Get(Get(DocOf(pattern_file), "experience_compression", JObj(<<>>)),
           "total_events", JNull) = JInt(1)

\* C18 as stated: apply_patterns over a store without cognitive patterns
\* returns the fixed message and calls no model; over a store with
\* patterns it calls the model once and returns the text of its answer;
\* it writes no document
C18_ApplyReadsThenGenerates ==
    [][/\ (pc = "idle" /\ ret'.op = "apply_patterns")
             => IF ~Truthy(Get(load_patterns(pattern_file),
                               "cognitive_patterns", JList(<<>>)))
                THEN /\ pc' = "idle"
                     /\ ret' = Ret("apply_patterns", ret'.arg, "ok",
                                   JStr(NoPatternsMessage), 0, NoReply)
                ELSE /\ pc' = "apply_call"
                     /\ ret'.calls = 1
       /\ (pc = "apply_call" /\ pc' = "idle" /\ ret'.reply.ok)
             => ret' = Ret("apply_patterns", loc.situation, "ok",
                           JStr(WordsOf(ret'.reply.text)), 1, ret'.reply)
       /\ ret'.op = "apply_patterns" => files' = files]_vars

\* the score the documentation gives an answer of w words with h hedging
\* words, in hundredths
DocumentedScore(h, w) ==
    LET raw == 85 - 8 * h + (IF 50 < w /\ w < 600 THEN 5 ELSE 0)
    IN  IF raw < 30 THEN 30 ELSE IF raw > 95 THEN 95 ELSE raw

\* C19: the confidence score of every question and answer is 85 hundredths
\* minus 8 for each hedging word of the answer, plus 5 exactly when the
\* answer has more than 50 and fewer than 600 words, clamped, and so lies
\* between 0.30 and 0.95; so does the confidence of every record the log
\* has been given and of every record the log file holds
C19_ScoreWithinBounds ==
    /\ ret.op = "_score_confidence"
          => /\ ret.val = JFrac(DocumentedScore(ret.arg.items[2].n,
                                                ret.arg.items[3].n))
             /\ ret.val.n \in 30..95
    /\ \A i \in 1..Len(appended) :
          LET c == Get(appended[i], "confidence", JNull) IN
          c.k = "frac" /\ c.n \in 30..95
    /\ LET got == load_log(None, log_file) IN
       /\ got.ok
       /\ Len(got.val) = Len(appended)
       /\ \A i \in 1..Len(got.val) :
             Hundredths(Get(got.val[i], "confidence", JNull)) \in 30..95

\* an answer of 51 words, 8 of them hedging, has been scored at the floor
C19_Witness ==
    /\ ret.op = "_score_confidence"
    /\ ret.arg.items[2] = JInt(8) /\ ret.arg.items[3] = JInt(51)
    /\ ret.val = JFrac(30)

\* C20: with the answer's word count, and so its length bonus, the same,
\* an answer with no more hedging words scores no lower, and the score is
\* the same under every question
C20_ScoreFallsWithHedges ==
    ret.op = "_score_confidence"
       => LET question == ret.arg.items[1].s
              h        == ret.arg.items[2].n
              w        == ret.arg.items[3].n
          IN  /\ \A other \in ScoredQuestions :
                    _score_confidence(other, AnswerWith(h, w)) = ret.val.n
              /\ \A h1 \in 0..h :
                    _score_confidence(question, AnswerWith(h1, w))
                       >= ret.val.n

\* an answer of 51 words, 2 of them hedging, has been scored under a
\* question of hedging words
C20_Witness ==
    /\ ret.op = "_score_confidence"
    /\ CountHedges(LowerText(ret.arg.items[1].s)) > 0
    /\ ret.arg.items[2] = JInt(2) /\ ret.arg.items[3] = JInt(51)
    /\ ret.val = JFrac(74)

\* the labels an entry of the log carries
TagsOf(entry) == {t.s[1] : t \in Range(Get(entry, "tags", JList(<<>>)).items)}

\* C21 as stated: the labels derived for a question and an answer are the
\* same whichever of the two comes first in the text that is classified;
\* the labels log_interaction stores hold those of the question followed
\* by the answer and those of the answer followed by the question
C21_TagsIgnoreConcatenationOrder ==
    \A i \in 1..Len(appended) :
       LET q == Get(appended[i], "question", JNull).s
           a == Get(appended[i], "answer", JNull).s
       IN  /\ Range(_auto_tag(q \o <<"SP">> \o a))
                 = Range(_auto_tag(a \o <<"SP">> \o q))
           /\ Range(_auto_tag(q \o <<"SP">> \o a)) \subseteq TagsOf(appended[i])
           /\ Range(_auto_tag(a \o <<"SP">> \o q)) \subseteq TagsOf(appended[i])

\* the operations that only read
Readers == {"load_log", "log_count", "load_beliefs", "load_patterns",
            "load_tensions", "format_belief_block",
            "format_cognitive_block", "apply_patterns"}

\* C22: every step of log_interaction leaves the Belief, Pattern and
\* Tension documents as they are, every step of run_reflection the log and
\* the Pattern and Tension documents, every step of run_synthesis the log
\* and the Belief document, and every step of a reading operation all four
C22_OperationsWriteOwnDocuments ==
    [][/\ ret'.op = "log_interaction"
             => UNCHANGED <<belief_file, pattern_file, tension_file>>
       /\ ret'.op = "run_reflection"
             => UNCHANGED <<log_file, pattern_file, tension_file>>
       /\ ret'.op = "run_synthesis"
             => UNCHANGED <<log_file, belief_file>>
       /\ ret'.op \in Readers => UNCHANGED files]_vars

\* a synthesis run has persisted its documents next to a log and a Belief
\* document that are there, and the loader of the beliefs has run since
C22_Witness ==
    /\ ret.op = "load_beliefs" /\ ret.val # JList(<<>>)
    /\ log_file.exists /\ belief_file.exists
    /\ pattern_file.exists /\ tension_file.exists

Stages == {"run_reflection", "run_synthesis"}
InModelCall == {"reflect_call", "synth_call"}

\* C23: a run of run_reflection or run_synthesis first reads (the log
\* window, the stored beliefs, the stored counter) and writes nothing; it
\* ends there without a model call exactly when the window or the belief
\* set is empty, and otherwise makes its one model call; the step after the
\* call ends the run with one call counted, a failed call ends it without
\* a write, and no step of a stage writes except the one that follows an
\* answer of the model
C23_StagesCallTheModelOnce ==
    [][/\ (pc = "idle" /\ ret'.op \in Stages)
             => /\ files' = files
                /\ (pc' = "idle")
                      = IF ret'.op = "run_reflection"
                        THEN load_log(JInt(cfg.reflection_window),
                                      log_file).val = <<>>
                        ELSE ~Truthy(load_beliefs(belief_file))
                /\ IF pc' = "idle"
                   THEN ret'.calls = 0 /\ ret'.outcome = "ok"
                   ELSE /\ ret'.calls = 1 /\ ret'.outcome = "pending"
                        /\ pc' \in InModelCall
                /\ (pc' = "reflect_call")
                      => /\ loc'.entries
                               = load_log(JInt(cfg.reflection_window),
                                          log_file).val
                         /\ loc'.existing = load_beliefs(belief_file).items
                         /\ loc'.count = StoredReflectionCount(belief_file)
                /\ (pc' = "synth_call")
                      => /\ loc'.existing = load_beliefs(belief_file).items
                         /\ loc'.total_events = log_count(log_file)
                         /\ loc'.count = SynthesisCountOn(pattern_file)
       /\ (pc \in InModelCall /\ ret'.op \in Stages)
             => /\ pc' = "idle"
                /\ ret'.calls = 1
                /\ ret'.outcome # "pending"
                /\ ~ret'.reply.ok
                      => files' = files /\ ret'.outcome = "llm_error"
       /\ (files' # files /\ ret'.op \in Stages)
             => pc \in InModelCall /\ ret'.reply.ok]_vars

\* a synthesis run has ended on a failed model call, after an earlier run
\* that persisted
C23_Witness ==
    /\ ret.op = "run_synthesis" /\ ret.outcome = "llm_error"
    /\ ret.calls = 1
    /\ pc = "idle"
    /\ pattern_file.exists

\* the Pattern and Tension documents hold the patterns, the archetype, the
\* ladder and the tensions of the one parsed result
StoredFrom(result) ==
    /\ pattern_file.exists /\ tension_file.exists
    /\ Get(DocOf(pattern_file), "cognitive_patterns", JNull)
          = Get(result, "cognitive_patterns", JList(<<>>))
    /\ Get(DocOf(pattern_file), "decision_archetype", JNull)
          = Get(result, "decision_archetype", JObj(<<>>))
    /\ Get(DocOf(pattern_file), "abstraction_ladder", JNull)
          = Get(result, "abstraction_ladder", JObj(<<>>))
    /\ load_tensions(tension_file) = Get(result, "tensions", JList(<<>>))

\* C24: the step of a run_synthesis that dies between its two writes
\* leaves the Pattern document of the new result, under the counter raised
\* by one, and the Tension document as it was; and while no run has died
\* so, the two documents are both absent or hold the patterns and the
\* tensions of one and the same answer of the model
C24_TwoWritesOneResult ==
    /\ [][ret'.outcome = "crashed"
             => /\ pc = "synth_call"
                /\ tension_file' = tension_file
                /\ pattern_file' # pattern_file
                /\ SynthesisCountOn(pattern_file')
                      = SynthesisCountOn(pattern_file) + 1
                /\ Get(DocOf(pattern_file'), "cognitive_patterns", JNull)
                      = Get(_parse_result(ret'.reply.text),
                            "cognitive_patterns", JList(<<>>))]_vars
    /\ [](~crashed
             => IF pattern_file.exists
                THEN \E raw \in SynthesisOutputs :
                        StoredFrom(_parse_result(raw))
                ELSE ~tension_file.exists)

\* a run has died between its writes: the Pattern document holds the
\* pattern of its answer, the Tension document the tension of the run
\* before, which stored no pattern
C24_Witness ==
    /\ crashed
    /\ ret.outcome = "crashed"
    /\ SynthesisCountOn(pattern_file) = 2
    /\ Get(DocOf(pattern_file), "cognitive_patterns", JNull)
          = Get(FullResult, "cognitive_patterns", JNull)
    /\ load_tensions(tension_file) = Get(NoPatternResult, "tensions", JNull)

\* the experience_compression of the Pattern document f
CompressionOn(f) == Get(DocOf(f), "experience_compression", JObj(<<>>))

\* C25: a run_synthesis reads as total_events the number of records the
\* log holds when the run starts, and a run that returns a result leaves
\* an experience_compression whose total_patterns is the number of
\* cognitive patterns stored (the length of the stored value), whose
\* total_events is the count the run read, and whose compression_ratio is
\* the text total_events:total_patterns when a pattern is stored and N/A
\* when none is
C25_CompressionMatchesStore ==
    [][/\ (pc = "idle" /\ pc' = "synth_call")
             => loc'.total_events = Len(appended)
       /\ (pc = "synth_call" /\ ret'.op = "run_synthesis"
              /\ ret'.outcome = "ok" /\ Truthy(ret'.val))
             => \A doc \in {DocOf(pattern_file')} :
                \A stored \in {Get(doc, "cognitive_patterns", JNull)} :
                \A n \in {IF stored.k = "str" THEN Len(stored.s)
                          ELSE Len(stored.items)} :
                   /\ HasLen(stored)
                   /\ Get(doc, "experience_compression", JNull)
                         = JObj(<<JPair("total_events",
                                        JInt(loc.total_events)),
                                  JPair("total_patterns", JInt(n)),
                                  JPair("compression_ratio",
                                        IF n >= 1
                                        THEN JStr(NumChars(loc.total_events)
                                                     \o <<":">>
                                                     \o NumChars(n))
                                        ELSE JStr(<<"N/A">>))>>)]_vars

\* a run that read a log of two records has stored one pattern
C25_Witness ==
    /\ ret.op = "run_synthesis" /\ ret.outcome = "ok" /\ Truthy(ret.val)
    /\ Get(CompressionOn(pattern_file), "total_events", JNull) = JInt(2)
    /\ Get(CompressionOn(pattern_file), "compression_ratio", JNull)
          = JStr(<<"2", ":", "1">>)

\* the entries a stage holds are the window it would have read when the
\* log held the first k records appended
WindowOfFirst(k) ==
    LastN(SubSeq(appended, 1, k), JInt(cfg.reflection_window))

\* C26: a log_interaction made while a stage waits for the model adds its
\* record to the log and leaves the stage, its locals and the stores as
\* they are; the step in which the stage persists leaves the log as it
\* is, its reflection has the window read before the call and its
\* synthesis stores the record count read before the call; and in every
\* state the log read back is the records appended, in order and unaltered
C26_AppendDuringModelCallIsSafe ==
    /\ [][/\ (pc \in InModelCall /\ ret'.op = "log_interaction")
                => /\ pc' = pc /\ loc' = loc /\ docs' = docs
                   /\ appended' = Append(appended, ret'.val)
          /\ (pc \in InModelCall /\ ret'.op \in Stages)
                => /\ log_file' = log_file
                   /\ appended' = appended
                   /\ pc = "reflect_call"
                         => \E k \in 1..Len(appended) :
                               loc.entries = WindowOfFirst(k)
                   /\ (pc = "synth_call" /\ ret'.outcome = "ok")
                         => /\ loc.total_events \in 1..Len(appended)
                            /\ Get(CompressionOn(pattern_file'),
                                   "total_events", JNull)
                                  = JInt(loc.total_events)]_vars
    /\ [](LET got == load_log(None, log_file) IN
          got.ok /\ got.val = appended)

\* a synthesis run that read a log of one record has persisted, a second
\* record was appended while it waited, and the log holds both
C26_Witness ==
    /\ ret.op = "run_synthesis" /\ ret.outcome = "ok" /\ pc = "idle"
    /\ Get(CompressionOn(pattern_file), "total_events", JNull) = JInt(1)
    /\ Len(appended) = 2 /\ appended[1] # appended[2]
    /\ load_log(None, log_file).val = appended

\* C27: in every state log_count() is the number of records load_log()
\* returns without a limit, which is the number of records appended;
\* load_log() does not raise
C27_CountIsLengthOfLoad ==
    \A got \in {load_log(None, log_file)} :
       /\ got.ok
       /\ log_count(log_file) = Len(got.val)
       /\ log_count(log_file) = Len(appended)
       /\ ret.op = "log_count" => ret.val = JInt(Len(got.val))

\* log_count() has returned 2 over a log that holds the same record
\* twice, a record whose answer has a backslash, the letter n and a quote,
\* and whose question has a line break
C27_Witness ==
    /\ ret.op = "log_count" /\ ret.val = JInt(2)
    /\ appended[1] = appended[2]
    /\ "NL" \in Range(Get(appended[1], "question", JNull).s)

\* C28 as stated: over the Belief document a run_reflection has just
\* written format_belief_block returns a text, every belief of it having
\* its statement; over the Pattern and Tension documents a run_synthesis
\* has just written format_cognitive_block returns a text, every pattern
\* having its statement and confidence and every tension of severity
\* above 0.5 its strategic question
C28_PersistedStoresRender ==
    [][/\ (ret'.op = "run_reflection" /\ belief_file' # belief_file)
             => /\ format_belief_block(None, belief_file').ok
                /\ \A b \in Range(load_beliefs(belief_file').items) :
                      HasKey(b, "belief")
       /\ (ret'.op = "run_synthesis" /\ pattern_file' # pattern_file
              /\ tension_file' # tension_file)
             => /\ format_cognitive_block(pattern_file', tension_file').ok
                /\ \A p \in Range(Get(load_patterns(pattern_file'),
                                      "cognitive_patterns",
                                      JList(<<>>)).items) :
                      HasKey(p, "pattern") /\ HasKey(p, "confidence")
                /\ \A t \in Range(load_tensions(tension_file').items) :
                      Active(t) => HasKey(t, "strategic_question")]_vars

\* C29: in every state a Pattern document that is there (synthesis_count
\* at least 1) comes with a reflection_count of at least 1 and a log of at
\* least one record, a synthesis run that waits for the model holds the
\* non-empty belief set it read, and every step in which a synthesis run
\* writes the Pattern document is the step of a run that read a non-empty
\* stored belief set
C29_SynthesisFollowsReflection ==
    /\ [](/\ (pattern_file.exists \/ tension_file.exists
                \/ SynthesisCountOn(pattern_file) >= 1)
             => /\ SynthesisCountOn(pattern_file) >= 1
                /\ ReflectionCountOn(belief_file) >= 1
                /\ Len(appended) >= 1
                /\ log_count(log_file) >= 1
          /\ pc = "synth_call"
                => loc.existing # <<>> /\ ReflectionCountOn(belief_file) >= 1)
    /\ [][/\ pattern_file' # pattern_file
                => /\ pc = "synth_call" /\ ret'.op = "run_synthesis"
                   /\ loc.existing # <<>>
          /\ (pc = "idle" /\ pc' = "synth_call")
                => /\ loc'.existing = load_beliefs(belief_file).items
                   /\ belief_file.exists]_vars

\* patterns are stored, and a later reflection has left the Belief
\* document without beliefs
C29_Witness ==
    /\ SynthesisCountOn(pattern_file) >= 1
    /\ Truthy(Get(DocOf(pattern_file), "cognitive_patterns", JNull))
    /\ ReflectionCountOn(belief_file) = 2
    /\ load_beliefs(belief_file) = JList(<<>>)

====
